---------------------------- MODULE Spec2Model ----------------------------
(***************************************************************************)
(* Model of synth-utils-rs: the phase accumulator (phase_accumulator.rs),  *)
(* the ADSR envelope generator (adsr.rs) and the LFO (lfo.rs) built on it, *)
(* the monophonic MIDI receiver (mono_midi_receiver.rs), the ribbon        *)
(* controller (ribbon_controller.rs) and the quantizer (quantizer.rs).     *)
(*                                                                         *)
(* Numbers.  The accumulator is an unsigned integer and is modelled        *)
(* exactly, with the program's width (24 bits in the ADSR and the LFO);    *)
(* the increment, which can take any u32 value, is a pair of 16-bit        *)
(* halves, so that the u32 addition of tick() is modelled with its         *)
(* overflow.  f32 values                                                   *)
(* (the output, the anchors, the sustain level, table entries, the         *)
(* interpolation fraction) are modelled in fixed point: the integer v      *)
(* stands for v / ONE, and a product is rounded down to a multiple of      *)
(* 1 / ONE where f32 rounds to the nearest float.  The f32 values that   *)
(* decide the increment (time periods, frequencies, the sample rate) are   *)
(* modelled as IEEE single-precision numbers <<m, e>> standing for         *)
(* m * 2^e with a 24-bit mantissa, and their divisions round to nearest,   *)
(* ties to even, as the hardware does: 1 ms at 1 kHz gives the increment   *)
(* 2^24 - 1, not 2^24.                                                     *)
(***************************************************************************)
EXTENDS Integers, Sequences, FiniteSets, TLC

(***************************************************************************)
(* Bounds of the model                                                     *)
(***************************************************************************)

\* fixed-point scale: the integer ONE stands for the f32 1.0
ONE == 16

\* the longest time the callers pass to set_input, in microseconds
MaxTimeInputUs == 3000

(***************************************************************************)
(* utils.rs                                                                *)
(***************************************************************************)

Min(a, b) == IF a < b THEN a ELSE b

Max(a, b) == IF a < b THEN b ELSE a

\* <<q, r>> with a * b = q * c + r and 0 <= r < c, for 0 <= a < c, 0 <= b,
\* computed by doubling so that no intermediate exceeds 2 * c
RECURSIVE MulDivMod(_, _, _)
MulDivMod(a, b, c) ==
    IF b = 0 THEN <<0, 0>>
    ELSE LET h  == MulDivMod(a, b \div 2, c)
             dq == 2 * h[1] + ((2 * h[2]) \div c)
             dr == (2 * h[2]) % c
         IN  IF b % 2 = 1
             THEN <<dq + ((dr + a) \div c), (dr + a) % c>>
             ELSE <<dq, dr>>

\* floor(a * b / c) for a, b >= 0 and c > 0
MulDiv(a, b, c) == (a \div c) * b + MulDivMod(a % c, b, c)[1]

\* the fixed-point product of two f32 values, rounded toward minus infinity
FMul(a, b) == (a * b) \div ONE

\* utils::linear_interp
linear_interp(y0, y1, frac) == y0 + FMul(y1 - y0, frac)

\* utils::ilog_2
RECURSIVE ilog_2(_)
ilog_2(x) == IF 1 < x THEN 1 + ilog_2(x \div 2) ELSE 0

(***************************************************************************)
(* f32: a positive single-precision number is <<m, e>>, 2^23 <= m < 2^24,  *)
(* standing for m * 2^e; zero is <<0, 0>>                                  *)
(***************************************************************************)

\* <<q, r, s>> with a * 2^s = q * b + r, 0 <= r < b, and q >= 2^24, reached
\* from <<q, r, s>> by doubling
RECURSIVE F32Norm(_, _, _, _)
F32Norm(q, r, b, s) ==
    IF q >= 2 ^ 24 THEN <<q, r, s>>
    ELSE F32Norm(2 * q + ((2 * r) \div b), (2 * r) % b, b, s + 1)

\* the f32 nearest to a / b (ties to even), for integers 0 <= a, 0 < b and
\* a / b < 2^25
F32Ratio(a, b) ==
    IF a = 0 THEN <<0, 0>>
    ELSE LET n  == F32Norm(a \div b, a % b, b, 0)
             m  == n[1] \div 2
             up == (n[1] % 2 = 1) /\ (n[2] > 0 \/ m % 2 = 1)
             m2 == IF up THEN m + 1 ELSE m
         IN  IF m2 = 2 ^ 24 THEN <<2 ^ 23, 2 - n[3]>> ELSE <<m2, 1 - n[3]>>

\* the f32 division x / y, y > 0
F32Div(x, y) ==
    IF x[1] = 0 THEN <<0, 0>>
    ELSE LET r == F32Ratio(x[1], y[1]) IN <<r[1], r[2] + x[2] - y[2]>>

\* the f32 product 2^k * x
F32Scale(k, x) == IF x[1] = 0 THEN <<0, 0>> ELSE <<x[1], x[2] + k>>

\* the f32 product x * y (ties to even): the 48-bit product of the
\* mantissas is q * 2^24 + r, and its top 24 bits are rounded by the rest
F32Mul(x, y) ==
    IF x[1] = 0 \/ y[1] = 0 THEN <<0, 0>>
    ELSE LET p    == MulDivMod(x[1], y[1], 2 ^ 24)
             wide == p[1] >= 2 ^ 23
             m    == IF wide THEN p[1] ELSE 2 * p[1] + (p[2] \div (2 ^ 23))
             rest == IF wide THEN p[2] ELSE 2 * (p[2] % (2 ^ 23))
             up   == rest > 2 ^ 23 \/ (rest = 2 ^ 23 /\ m % 2 = 1)
             m2   == IF up THEN m + 1 ELSE m
             e    == x[2] + y[2] + (IF wide THEN 24 ELSE 23)
         IN  IF m2 = 2 ^ 24 THEN <<2 ^ 23, e + 1>> ELSE <<m2, e>>

\* x < y, for x, y >= 0
F32Less(x, y) ==
    IF x[1] = 0 THEN y[1] > 0
    ELSE y[1] > 0 /\ (x[2] < y[2] \/ (x[2] = y[2] /\ x[1] < y[1]))

\* f32::max and f32::min
F32Max(x, y) == IF F32Less(x, y) THEN y ELSE x

F32Min(x, y) == IF F32Less(x, y) THEN x ELSE y

(***************************************************************************)
(* u32: an unsigned 32-bit integer that may exceed 2^31 is the pair of its *)
(* 16-bit halves <<hi, lo>>, standing for hi * 2^16 + lo                   *)
(***************************************************************************)

\* the integer a u32 stands for, when it is below 2^31
U32ToInt(u) == u[1] * (2 ^ 16) + u[2]

\* x as u32, x >= 0: the integer part, saturating at 2^32 - 1
F32AsU32(x) ==
    IF x[2] >= 9 THEN <<(2 ^ 16) - 1, (2 ^ 16) - 1>>
    ELSE IF x[2] >= 0
         THEN <<x[1] \div (2 ^ (16 - x[2])),
                (x[1] % (2 ^ (16 - x[2]))) * (2 ^ x[2])>>
         ELSE IF x[2] < 0 - 24 THEN <<0, 0>>
              ELSE LET v == x[1] \div (2 ^ (0 - x[2]))
                   IN  <<v \div (2 ^ 16), v % (2 ^ 16)>>

\* a + u for a < 2^31 and a u32 u: <<hi, lo>> with lo < 2^16; the sum is
\* beyond the u32 range iff hi >= 2^16
U32Add(a, u) ==
    LET lo == (a % (2 ^ 16)) + u[2]
    IN  <<(a \div (2 ^ 16)) + u[1] + (lo \div (2 ^ 16)), lo % (2 ^ 16)>>

\* (s mod 2^32) & mask for a sum s of U32Add and mask = 2^n - 1, n <= 31
U32And(s, mask) ==
    IF mask < 2 ^ 16 THEN s[2] % (mask + 1)
    ELSE (s[1] % ((mask + 1) \div (2 ^ 16))) * (2 ^ 16) + s[2]

(***************************************************************************)
(* lookup_tables.rs is not part of the sources at hand.  The tables are    *)
(* modelled from the specification: power-of-two size, values normalised   *)
(* to [0, 1], the attack curve an up-going convex RC curve from 0 to 1,    *)
(* the decay curve a down-going concave RC curve from 1 to 0.              *)
(***************************************************************************)

ADSR_CURVE_LUT_SIZE == 8

\* the RC curve 1 - exp(-3 i / 7), normalised to end at 1000, i = 0 .. 7
RcCurvePerMille == <<0, 367, 606, 761, 863, 929, 972, 1000>>

\* entry i (0-based) of the attack table
ADSR_ATTACK_TABLE(i) == (RcCurvePerMille[i + 1] * ONE) \div 1000

\* entry i (0-based) of the decay table
ADSR_DECAY_TABLE(i) == ONE - ADSR_ATTACK_TABLE(i)

(***************************************************************************)
(* phase_accumulator.rs                                                    *)
(***************************************************************************)

\* PhaseAccumulator::new.  accumulator and last_accumulator stay within
\* rollover_mask < 2^31 and are integers; increment is a u32 pair.
PhaseAccumulator_new(sample_rate_hz, TOTAL_NUM_BITS) ==
    [ sample_rate_hz   |-> sample_rate_hz,
      rollover_mask    |-> (2 ^ TOTAL_NUM_BITS) - 1,
      accumulator      |-> 0,
      last_accumulator |-> 0,
      increment        |-> <<0, 0>>,
      rolled_over      |-> FALSE ]

\* PhaseAccumulator::tick without the addition of the increment
PhaseAccumulator_tick_stands_still(pa) ==
    LET acc == pa.accumulator
    IN  [pa EXCEPT !.accumulator      = acc,
                   !.rolled_over      = IF acc < pa.last_accumulator
                                        THEN TRUE ELSE pa.rolled_over,
                   !.last_accumulator = acc]

\* the first line of PhaseAccumulator::tick leaves the u32 range: the
\* addition panics in a build with overflow checks and wraps in one without
PhaseAccumulator_tick_overflows(pa) ==
    U32Add(pa.accumulator, pa.increment)[1] >= 2 ^ 16

\* PhaseAccumulator::tick without its last line: last_accumulator is
\* never updated
PhaseAccumulator_tick_forgets_last(pa) ==
    LET acc == U32And(U32Add(pa.accumulator, pa.increment), pa.rollover_mask)
    IN  [pa EXCEPT !.accumulator = acc,
                   !.rolled_over = IF acc < pa.last_accumulator
                                   THEN TRUE ELSE pa.rolled_over]

\* PhaseAccumulator::tick with a sum clamped to rollover_mask instead of
\* masked
PhaseAccumulator_tick_saturates(pa) ==
    LET sum == U32Add(pa.accumulator, pa.increment)
        acc == IF sum[1] > pa.rollover_mask \div (2 ^ 16)
               THEN pa.rollover_mask
               ELSE Min(U32ToInt(sum), pa.rollover_mask)
    IN  [pa EXCEPT !.accumulator      = acc,
                   !.rolled_over      = IF acc < pa.last_accumulator
                                        THEN TRUE ELSE pa.rolled_over,
                   !.last_accumulator = acc]

\* PhaseAccumulator::tick with last_accumulator updated before the
\* comparison
PhaseAccumulator_tick_compares_late(pa) ==
    LET acc == U32And(U32Add(pa.accumulator, pa.increment), pa.rollover_mask)
    IN  [pa EXCEPT !.accumulator      = acc,
                   !.last_accumulator = acc]

\* PhaseAccumulator::tick, when the addition does not panic: the sum
\* modulo 2^32, masked
PhaseAccumulator_tick(pa) ==
    LET acc == U32And(U32Add(pa.accumulator, pa.increment), pa.rollover_mask)
    IN  [pa EXCEPT !.accumulator      = acc,
                   !.rolled_over      = IF acc < pa.last_accumulator
                                        THEN TRUE ELSE pa.rolled_over,
                   !.last_accumulator = acc]

\* PhaseAccumulator::set_frequency
PhaseAccumulator_set_frequency(pa, freq_hz, TOTAL_NUM_BITS) ==
    [pa EXCEPT !.increment =
        F32AsU32(F32Div(F32Scale(TOTAL_NUM_BITS, freq_hz), pa.sample_rate_hz))]

\* PhaseAccumulator::set_period
PhaseAccumulator_set_period(pa, period_sec, TOTAL_NUM_BITS) ==
    PhaseAccumulator_set_frequency(pa, F32Div(F32Ratio(1, 1), period_sec),
                                   TOTAL_NUM_BITS)

\* PhaseAccumulator::reset
PhaseAccumulator_reset(pa) ==
    [pa EXCEPT !.accumulator      = 0,
               !.last_accumulator = 0,
               !.rolled_over      = FALSE]

\* PhaseAccumulator::set_phase with 1 << TOTAL_NUM_BITS in the place of
\* rollover_mask
PhaseAccumulator_set_phase_unmasked(pa, phase) ==
    [PhaseAccumulator_reset(pa) EXCEPT !.accumulator =
        U32ToInt(F32AsU32(F32Mul(F32Ratio(pa.rollover_mask + 1, 1), phase)))]

\* PhaseAccumulator::set_phase, 0 <= phase <= 1
PhaseAccumulator_set_phase(pa, phase) ==
    [PhaseAccumulator_reset(pa) EXCEPT !.accumulator =
        U32ToInt(F32AsU32(F32Mul(F32Ratio(pa.rollover_mask, 1), phase)))]

\* PhaseAccumulator::ramp in units of 2^-TOTAL_NUM_BITS: the conversion of
\* the accumulator to f32 and the division by a power of two are exact for
\* TOTAL_NUM_BITS <= 24
PhaseAccumulator_ramp(pa) == pa.accumulator

\* PhaseAccumulator::index with the shift by NUM_INDEX_BITS
PhaseAccumulator_index_low_shift(pa, TOTAL_NUM_BITS, NUM_INDEX_BITS) ==
    pa.accumulator \div (2 ^ NUM_INDEX_BITS)

\* PhaseAccumulator::index
PhaseAccumulator_index(pa, TOTAL_NUM_BITS, NUM_INDEX_BITS) ==
    pa.accumulator \div (2 ^ (TOTAL_NUM_BITS - NUM_INDEX_BITS))

\* PhaseAccumulator::fraction, in fixed point
PhaseAccumulator_fraction(pa) ==
    MulDiv(pa.accumulator % (pa.rollover_mask + 1), ONE, pa.rollover_mask)

\* PhaseAccumulator::rolled_over without the self-clearing
PhaseAccumulator_rolled_over_keeps(pa) == <<pa.rolled_over, pa>>

\* PhaseAccumulator::rolled_over: <<the value returned, the accumulator after>>
PhaseAccumulator_rolled_over(pa) ==
    IF pa.rolled_over
    THEN <<TRUE, [pa EXCEPT !.rolled_over = FALSE]>>
    ELSE <<FALSE, pa>>

(***************************************************************************)
(* adsr.rs                                                                 *)
(***************************************************************************)

MIN_TIME_PERIOD_SEC == F32Ratio(1, 1000)

MAX_TIME_PERIOD_SEC == F32Ratio(20, 1)

TOT_NUM_ACCUM_BITS == 24

NUM_LUT_INDEX_BITS == ilog_2(ADSR_CURVE_LUT_SIZE)

State == {"AtRest", "Attack", "Decay", "Sustain", "Release"}

\* From<f32> for TimePeriod
TimePeriod_from(p) ==
    F32Min(F32Max(p, MIN_TIME_PERIOD_SEC), MAX_TIME_PERIOD_SEC)

\* From<f32> for SustainLevel without the lower clamp
SustainLevel_from_no_floor(val) == Min(val, ONE)

\* From<f32> for SustainLevel
SustainLevel_from(val) == Min(Max(val, 0), ONE)

\* Adsr::new
Adsr_new(sample_rate_hz) ==
    [ attack_time   |-> TimePeriod_from(MIN_TIME_PERIOD_SEC),
      decay_time    |-> TimePeriod_from(MIN_TIME_PERIOD_SEC),
      sustain_level |-> SustainLevel_from(ONE),
      release_time  |-> TimePeriod_from(MIN_TIME_PERIOD_SEC),
      phase_accumulator |->
          PhaseAccumulator_new(sample_rate_hz, TOT_NUM_ACCUM_BITS),
      state         |-> "AtRest",
      value_when_gate_on_received  |-> 0,
      value_when_gate_off_received |-> 0,
      value         |-> 0 ]

\* lut_idx of Adsr::calc_value
Adsr_lut_idx(a) ==
    PhaseAccumulator_index(a.phase_accumulator, TOT_NUM_ACCUM_BITS,
                           NUM_LUT_INDEX_BITS)

\* next_lut_idx of Adsr::calc_value wrapping around like a cyclic table's
Adsr_next_lut_idx_wraps(a) == (Adsr_lut_idx(a) + 1) % ADSR_CURVE_LUT_SIZE

\* next_lut_idx of Adsr::calc_value
Adsr_next_lut_idx(a) == Min(Adsr_lut_idx(a) + 1, ADSR_CURVE_LUT_SIZE - 1)

\* Adsr::calc_value
Adsr_calc_value(a) ==
    LET lut_idx      == Adsr_lut_idx(a)
        next_lut_idx == Adsr_next_lut_idx(a)
        frac         == PhaseAccumulator_fraction(a.phase_accumulator)
    IN  CASE a.state = "Attack" ->
               FMul(ONE - a.value_when_gate_on_received,
                    linear_interp(ADSR_ATTACK_TABLE(lut_idx),
                                  ADSR_ATTACK_TABLE(next_lut_idx), frac))
               + a.value_when_gate_on_received
          [] a.state = "Decay" ->
               FMul(ONE - a.sustain_level,
                    linear_interp(ADSR_DECAY_TABLE(lut_idx),
                                  ADSR_DECAY_TABLE(next_lut_idx), frac))
               + a.sustain_level
          [] a.state = "Sustain" ->
               FMul(ONE, a.sustain_level) + 0
          [] a.state = "Release" ->
               FMul(a.value_when_gate_off_received,
                    linear_interp(ADSR_DECAY_TABLE(lut_idx),
                                  ADSR_DECAY_TABLE(next_lut_idx), frac))
               + 0
          [] a.state = "AtRest" ->
               FMul(0, 0) + 0

\* the first match of Adsr::tick with the attack time in every arm
Adsr_period_of_this_phase_attack_only(a) ==
    CASE a.state = "Attack"  -> a.attack_time
      [] a.state = "Decay"   -> a.attack_time
      [] a.state = "Release" -> a.attack_time
      [] a.state = "Sustain" -> MIN_TIME_PERIOD_SEC
      [] a.state = "AtRest"  -> MIN_TIME_PERIOD_SEC

\* the first match of Adsr::tick: the period of the current state
Adsr_period_of_this_phase(a) ==
    CASE a.state = "Attack"  -> a.attack_time
      [] a.state = "Decay"   -> a.decay_time
      [] a.state = "Release" -> a.release_time
      [] a.state = "Sustain" -> MIN_TIME_PERIOD_SEC
      [] a.state = "AtRest"  -> MIN_TIME_PERIOD_SEC

\* the second match of Adsr::tick with the decay skipped
Adsr_next_state_skips_decay(s) ==
    CASE s = "Attack"  -> "Sustain"
      [] s = "Decay"   -> "Sustain"
      [] s = "Release" -> "AtRest"
      [] s = "Sustain" -> "Sustain"
      [] s = "AtRest"  -> "AtRest"

\* the second match of Adsr::tick: the state that follows a roll-over
Adsr_next_state(s) ==
    CASE s = "Attack"  -> "Decay"
      [] s = "Decay"   -> "Sustain"
      [] s = "Release" -> "AtRest"
      [] s = "Sustain" -> "Sustain"
      [] s = "AtRest"  -> "AtRest"

\* Adsr::tick up to the output calculation, without the test of the state
Adsr_tick_accumulator_every_state(a) ==
    LET p1 == PhaseAccumulator_set_period(a.phase_accumulator,
                  Adsr_period_of_this_phase(a), TOT_NUM_ACCUM_BITS)
        p2 == PhaseAccumulator_tick(p1)
        ro == PhaseAccumulator_rolled_over(p2)
    IN  [a EXCEPT !.phase_accumulator = ro[2],
                  !.state = IF ro[1] THEN Adsr_next_state(a.state)
                                     ELSE a.state]

\* Adsr::tick up to the output calculation
Adsr_tick_accumulator(a) ==
    IF a.state = "Attack" \/ a.state = "Decay" \/ a.state = "Release"
    THEN LET p1 == PhaseAccumulator_set_period(a.phase_accumulator,
                       Adsr_period_of_this_phase(a), TOT_NUM_ACCUM_BITS)
             p2 == PhaseAccumulator_tick(p1)
             ro == PhaseAccumulator_rolled_over(p2)
         IN  [a EXCEPT !.phase_accumulator = ro[2],
                       !.state = IF ro[1] THEN Adsr_next_state(a.state)
                                          ELSE a.state]
    ELSE a

\* Adsr::tick
Adsr_tick(a) ==
    LET b == Adsr_tick_accumulator(a)
    IN  [b EXCEPT !.value = Adsr_calc_value(b)]

\* Adsr::gate_on without the reset of the phase accumulator
Adsr_gate_on_keeps_phase(a) ==
    IF a.state \in {"AtRest", "Decay", "Sustain", "Release"}
    THEN [a EXCEPT !.value_when_gate_on_received = a.value,
                   !.state = "Attack"]
    ELSE a

\* Adsr::gate_on with the Attack arm doing what the other arm does
Adsr_gate_on_always(a) ==
    [a EXCEPT !.value_when_gate_on_received = a.value,
              !.phase_accumulator =
                  PhaseAccumulator_reset(a.phase_accumulator),
              !.state = "Attack"]

\* Adsr::gate_on with every attack starting from 0
Adsr_gate_on_from_zero(a) ==
    IF a.state \in {"AtRest", "Decay", "Sustain", "Release"}
    THEN [a EXCEPT !.value_when_gate_on_received = 0,
                   !.phase_accumulator =
                       PhaseAccumulator_reset(a.phase_accumulator),
                   !.state = "Attack"]
    ELSE a

\* Adsr::gate_on
Adsr_gate_on(a) ==
    IF a.state \in {"AtRest", "Decay", "Sustain", "Release"}
    THEN [a EXCEPT !.value_when_gate_on_received = a.value,
                   !.phase_accumulator =
                       PhaseAccumulator_reset(a.phase_accumulator),
                   !.state = "Attack"]
    ELSE a

\* Adsr::gate_off without the capture of the output
Adsr_gate_off_no_anchor(a) ==
    IF a.state \in {"Attack", "Decay", "Sustain"}
    THEN [a EXCEPT !.phase_accumulator =
                       PhaseAccumulator_reset(a.phase_accumulator),
                   !.state = "Release"]
    ELSE a

\* Adsr::gate_off with Sustain in the arm that ignores the message
Adsr_gate_off_not_in_sustain(a) ==
    IF a.state \in {"Attack", "Decay"}
    THEN [a EXCEPT !.value_when_gate_off_received = a.value,
                   !.phase_accumulator =
                       PhaseAccumulator_reset(a.phase_accumulator),
                   !.state = "Release"]
    ELSE a

\* Adsr::gate_off
Adsr_gate_off(a) ==
    IF a.state \in {"Attack", "Decay", "Sustain"}
    THEN [a EXCEPT !.value_when_gate_off_received = a.value,
                   !.phase_accumulator =
                       PhaseAccumulator_reset(a.phase_accumulator),
                   !.state = "Release"]
    ELSE a

\* Adsr::set_input followed by a recalculation of the output
Adsr_set_input_recomputes(a, input) ==
    LET b == CASE input[1] = "Attack"  -> [a EXCEPT !.attack_time = input[2]]
               [] input[1] = "Decay"   -> [a EXCEPT !.decay_time = input[2]]
               [] input[1] = "Sustain" ->
                      [a EXCEPT !.sustain_level = input[2]]
               [] input[1] = "Release" ->
                      [a EXCEPT !.release_time = input[2]]
    IN  [b EXCEPT !.value = Adsr_calc_value(b)]

\* Adsr::set_input; the input is <<kind, v>>, v a TimePeriod or a
\* SustainLevel, which only their From conversions construct
Adsr_set_input(a, input) ==
    CASE input[1] = "Attack"  -> [a EXCEPT !.attack_time = input[2]]
      [] input[1] = "Decay"   -> [a EXCEPT !.decay_time = input[2]]
      [] input[1] = "Sustain" -> [a EXCEPT !.sustain_level = input[2]]
      [] input[1] = "Release" -> [a EXCEPT !.release_time = input[2]]

(***************************************************************************)
(* lfo.rs.  The outputs of the LFO are f32 values in [-1, 1]; they are     *)
(* modelled in units of 2^-LFO_TOT_NUM_ACCUM_BITS, the units of ramp(),    *)
(* in which the products and differences that UpSaw, DownSaw, Triangle and *)
(* Square compute from the ramp are exact in f32.  The sine table is       *)
(* modelled from the specification: one cycle of the sine in               *)
(* SINE_LUT_SIZE entries, in the fixed point of the tables above.          *)
(***************************************************************************)

SINE_LUT_SIZE == 8

\* 1000 * sin(2 * pi * i / 8), i = 0 .. 7
SineCurvePerMille == <<0, 707, 1000, 707, 0, 0 - 707, 0 - 1000, 0 - 707>>

\* entry i (0-based) of the sine table
SINE_TABLE(i) ==
    IF SineCurvePerMille[i + 1] < 0
    THEN 0 - (((0 - SineCurvePerMille[i + 1]) * ONE) \div 1000)
    ELSE (SineCurvePerMille[i + 1] * ONE) \div 1000

LFO_TOT_NUM_ACCUM_BITS == 24

LFO_NUM_LUT_INDEX_BITS == ilog_2(SINE_LUT_SIZE)

\* the f32 1.0 in the units of the LFO outputs
LFO_ONE == 2 ^ LFO_TOT_NUM_ACCUM_BITS

Waveshape == {"Sine", "Triangle", "UpSaw", "DownSaw", "Square"}

\* Lfo::new
Lfo_new(sample_rate_hz) ==
    [ phase_accumulator |->
          PhaseAccumulator_new(sample_rate_hz, LFO_TOT_NUM_ACCUM_BITS) ]

\* Lfo::tick, when the addition in the accumulator does not panic
Lfo_tick(l) ==
    [l EXCEPT !.phase_accumulator = PhaseAccumulator_tick(@)]

\* Lfo::set_frequency
Lfo_set_frequency(l, freq) ==
    [l EXCEPT !.phase_accumulator =
        PhaseAccumulator_set_frequency(@, freq, LFO_TOT_NUM_ACCUM_BITS)]

\* lut_idx of Lfo::get(Waveshape::Sine)
Lfo_sine_lut_idx(l) ==
    PhaseAccumulator_index(l.phase_accumulator, LFO_TOT_NUM_ACCUM_BITS,
                           LFO_NUM_LUT_INDEX_BITS)

\* next_lut_idx of Lfo::get(Waveshape::Sine)
Lfo_sine_next_lut_idx(l) == (Lfo_sine_lut_idx(l) + 1) % (SINE_LUT_SIZE - 1)

\* Lfo::get(Waveshape::Sine)
Lfo_get_sine(l) ==
    LET lut_idx      == Lfo_sine_lut_idx(l)
        next_lut_idx == Lfo_sine_next_lut_idx(l)
        y            == linear_interp(
                            SINE_TABLE(lut_idx), SINE_TABLE(next_lut_idx),
                            PhaseAccumulator_fraction(l.phase_accumulator))
    IN  IF y < 0 THEN 0 - (((0 - y) * LFO_ONE) \div ONE)
        ELSE (y * LFO_ONE) \div ONE

\* Lfo::get(Waveshape::UpSaw)
Lfo_get_up_saw(l) ==
    (PhaseAccumulator_ramp(l.phase_accumulator) * 2) - LFO_ONE

\* Lfo::get(Waveshape::Triangle) without the last fold
Lfo_get_triangle_one_fold(l) ==
    LET raw_ramp == PhaseAccumulator_ramp(l.phase_accumulator) * 4
    IN  IF raw_ramp < LFO_ONE THEN raw_ramp ELSE 2 * LFO_ONE - raw_ramp

\* Lfo::get(Waveshape::Triangle)
Lfo_get_triangle(l) ==
    LET raw_ramp == PhaseAccumulator_ramp(l.phase_accumulator) * 4
    IN  IF raw_ramp < LFO_ONE THEN raw_ramp
        ELSE IF raw_ramp < 3 * LFO_ONE THEN 2 * LFO_ONE - raw_ramp
        ELSE raw_ramp - 4 * LFO_ONE

\* Lfo::get(Waveshape::DownSaw) without the negation
Lfo_get_down_saw_not_negated(l) == Lfo_get_up_saw(l)

\* Lfo::get(Waveshape::DownSaw)
Lfo_get_down_saw(l) == 0 - Lfo_get_up_saw(l)

\* Lfo::get(Waveshape::Square) with the two halves exchanged
Lfo_get_square_inverted(l) ==
    IF PhaseAccumulator_ramp(l.phase_accumulator) * 2 < LFO_ONE
    THEN 0 - LFO_ONE ELSE LFO_ONE

\* Lfo::get(Waveshape::Square)
Lfo_get_square(l) ==
    IF PhaseAccumulator_ramp(l.phase_accumulator) * 2 < LFO_ONE
    THEN LFO_ONE ELSE 0 - LFO_ONE

\* Lfo::get
Lfo_get(l, waveshape) ==
    CASE waveshape = "Sine"     -> Lfo_get_sine(l)
      [] waveshape = "Triangle" -> Lfo_get_triangle(l)
      [] waveshape = "UpSaw"    -> Lfo_get_up_saw(l)
      [] waveshape = "DownSaw"  -> Lfo_get_down_saw(l)
      [] waveshape = "Square"   -> Lfo_get_square(l)

(***************************************************************************)
(* mono_midi_receiver.rs.  The receiver is a record of its fields, without *)
(* the byte stream parser of the midi_convert crate: a message is what     *)
(* self.parser.parse(byte) returns for the byte that completes it, the     *)
(* record [type, ch, d1, d2] of its type, zero-based channel and two data  *)
(* values (note and velocity, controller and value, or the 14-bit bend in  *)
(* d1), and [type |-> "None"] stands for a byte that completes no message  *)
(* or completes one of another type.  The f32 fields are in units of       *)
(* 1 / ONE.                                                                *)
(***************************************************************************)

CC_MOD_WHEEL == 1

CC_VOLUME == 7

CC_VCF_CUTOFF == 71

CC_VCF_RESONANCE == 74

CC_SUSTAIN_SWITCH == 64

CC_PORTAMENTO_SWITCH == 65

CC_PORTAMENTO_TIME == 5

CC_ALL_CONTROLLERS_OFF == 121

CC_ALL_NOTES_OFF == 123

\* 1 << 6
U7_HALF_SCALE == 64

HELD_DOWN_NOTE_BUFFER_LEN == 32

RetriggerMode == {"NoRetrigger", "AllowRetrigger"}

NotePriority == {"Last", "High", "Low"}

\* value7_to_f32: u8::from(val7) as f32 / 127.0
value7_to_f32(val7) == (val7 * ONE) \div 127

\* f32::from(Value14), the bend of the midi_types crate: the 14-bit value
\* about its centre 8192
value14_to_f32(val_u14) ==
    IF val_u14 >= 8192 THEN ((val_u14 - 8192) * ONE) \div 8191
    ELSE 0 - (((8192 - val_u14) * ONE) \div 8192)

\* MonoMidiReceiver::new
MonoMidiReceiver_new(channel) ==
    [ channel            |-> Min(channel, 15),
      note_num           |-> 0,
      pitch_bend         |-> 0,
      velocity           |-> 0,
      mod_wheel          |-> 0,
      volume             |-> 0,
      vcf_cutoff         |-> 0,
      vcf_resonance      |-> 0,
      portamento_time    |-> 0,
      portamento_enabled |-> TRUE,
      sustain_enabled    |-> TRUE,
      gate               |-> FALSE,
      rising_gate        |-> FALSE,
      falling_gate       |-> FALSE,
      retrigger_mode     |-> "NoRetrigger",
      note_priority      |-> "Last",
      held_down_notes    |-> <<>> ]

\* the largest and the smallest element of a sequence of numbers
SeqMax(s) == CHOOSE x \in {s[i] : i \in 1 .. Len(s)} :
                 \A i \in 1 .. Len(s) : s[i] <= x

SeqMin(s) == CHOOSE x \in {s[i] : i \in 1 .. Len(s)} :
                 \A i \in 1 .. Len(s) : x <= s[i]

\* MonoMidiReceiver::choose_next_note with Last taking the oldest note held
MonoMidiReceiver_choose_next_note_first(mr) ==
    LET held == mr.held_down_notes
    IN  IF Len(held) = 0 THEN 0
        ELSE CASE mr.note_priority = "Last" -> held[1]
               [] mr.note_priority = "High" -> SeqMax(held)
               [] mr.note_priority = "Low"  -> SeqMin(held)

\* MonoMidiReceiver::choose_next_note; unwrap_or(&0) for no note held
MonoMidiReceiver_choose_next_note(mr) ==
    LET held == mr.held_down_notes
    IN  IF Len(held) = 0 THEN 0
        ELSE CASE mr.note_priority = "Last" -> held[Len(held)]
               [] mr.note_priority = "High" -> SeqMax(held)
               [] mr.note_priority = "Low"  -> SeqMin(held)

\* Vec::push(note).ok(): a push to a full vector is dropped
Vec_push(held, note) ==
    IF Len(held) < HELD_DOWN_NOTE_BUFFER_LEN THEN Append(held, note)
    ELSE held

\* MonoMidiReceiver::handle_note_on latching the rising gate in both modes
MonoMidiReceiver_handle_note_on_always_latches(mr, note, velocity) ==
    LET pushed == [mr EXCEPT !.velocity = value7_to_f32(velocity),
                             !.held_down_notes = Vec_push(@, note)]
    IN  [pushed EXCEPT !.note_num = MonoMidiReceiver_choose_next_note(pushed),
                       !.gate = TRUE,
                       !.falling_gate = FALSE,
                       !.rising_gate = TRUE]

\* MonoMidiReceiver::handle_note_on
MonoMidiReceiver_handle_note_on(mr, note, velocity) ==
    LET pushed == [mr EXCEPT !.velocity = value7_to_f32(velocity),
                             !.held_down_notes = Vec_push(@, note)]
    IN  [pushed EXCEPT !.note_num = MonoMidiReceiver_choose_next_note(pushed),
                       !.gate = TRUE,
                       !.falling_gate = FALSE,
                       !.rising_gate =
                           IF \/ mr.retrigger_mode = "AllowRetrigger"
                              \/ Len(pushed.held_down_notes) = 1
                           THEN TRUE ELSE @]

\* MonoMidiReceiver::handle_note_off dropping the gate at every note-off
MonoMidiReceiver_handle_note_off_drops_gate(mr, note) ==
    LET retained == [mr EXCEPT !.held_down_notes =
                                   SelectSeq(@, LAMBDA n : n # note)]
    IN  [retained EXCEPT !.gate = FALSE,
                         !.rising_gate = FALSE,
                         !.falling_gate = TRUE]

\* MonoMidiReceiver::handle_note_off
MonoMidiReceiver_handle_note_off(mr, note) ==
    LET retained == [mr EXCEPT !.held_down_notes =
                                   SelectSeq(@, LAMBDA n : n # note)]
    IN  IF Len(retained.held_down_notes) = 0
        THEN [retained EXCEPT !.gate = FALSE,
                              !.rising_gate = FALSE,
                              !.falling_gate = TRUE]
        ELSE [retained EXCEPT !.note_num =
                                  MonoMidiReceiver_choose_next_note(retained)]

\* MonoMidiReceiver::reset_controllers
MonoMidiReceiver_reset_controllers(mr) ==
    [mr EXCEPT !.pitch_bend = 0,
               !.mod_wheel = 0,
               !.volume = 0,
               !.vcf_cutoff = 0,
               !.vcf_resonance = 0,
               !.portamento_time = 0,
               !.portamento_enabled = TRUE,
               !.sustain_enabled = TRUE]

\* the ControlChange arm of MonoMidiReceiver::parse
MonoMidiReceiver_control_change(mr, cc, val7) ==
    CASE cc = CC_MOD_WHEEL -> [mr EXCEPT !.mod_wheel = value7_to_f32(val7)]
      [] cc = CC_VOLUME -> [mr EXCEPT !.volume = value7_to_f32(val7)]
      [] cc = CC_VCF_CUTOFF ->
             [mr EXCEPT !.vcf_cutoff = value7_to_f32(val7)]
      [] cc = CC_VCF_RESONANCE ->
             [mr EXCEPT !.vcf_resonance = value7_to_f32(val7)]
      [] cc = CC_PORTAMENTO_TIME ->
             [mr EXCEPT !.portamento_time = value7_to_f32(val7)]
      [] cc = CC_PORTAMENTO_SWITCH ->
             [mr EXCEPT !.portamento_enabled = (U7_HALF_SCALE <= val7)]
      [] cc = CC_SUSTAIN_SWITCH ->
             [mr EXCEPT !.sustain_enabled = (U7_HALF_SCALE <= val7)]
      [] cc = CC_ALL_CONTROLLERS_OFF -> MonoMidiReceiver_reset_controllers(mr)
      [] cc = CC_ALL_NOTES_OFF ->
             [mr EXCEPT !.held_down_notes = <<>>,
                        !.gate = FALSE,
                        !.rising_gate = FALSE,
                        !.falling_gate = FALSE]
      [] OTHER -> mr

\* MonoMidiReceiver::parse taking the note-offs of every channel
MonoMidiReceiver_parse_note_off_any_channel(mr, msg) ==
    CASE msg.type = "NoteOn" /\ msg.ch = mr.channel ->
             IF msg.d2 = 0
             THEN MonoMidiReceiver_handle_note_off(mr, msg.d1)
             ELSE MonoMidiReceiver_handle_note_on(mr, msg.d1, msg.d2)
      [] msg.type = "NoteOff" ->
             MonoMidiReceiver_handle_note_off(mr, msg.d1)
      [] msg.type = "PitchBendChange" /\ msg.ch = mr.channel ->
             [mr EXCEPT !.pitch_bend = value14_to_f32(msg.d1)]
      [] msg.type = "ControlChange" /\ msg.ch = mr.channel ->
             MonoMidiReceiver_control_change(mr, msg.d1, msg.d2)
      [] OTHER -> mr

\* MonoMidiReceiver::parse, for the byte that makes the parser return msg
MonoMidiReceiver_parse(mr, msg) ==
    CASE msg.type = "NoteOn" /\ msg.ch = mr.channel ->
             IF msg.d2 = 0
             THEN MonoMidiReceiver_handle_note_off(mr, msg.d1)
             ELSE MonoMidiReceiver_handle_note_on(mr, msg.d1, msg.d2)
      [] msg.type = "NoteOff" /\ msg.ch = mr.channel ->
             MonoMidiReceiver_handle_note_off(mr, msg.d1)
      [] msg.type = "PitchBendChange" /\ msg.ch = mr.channel ->
             [mr EXCEPT !.pitch_bend = value14_to_f32(msg.d1)]
      [] msg.type = "ControlChange" /\ msg.ch = mr.channel ->
             MonoMidiReceiver_control_change(mr, msg.d1, msg.d2)
      [] OTHER -> mr

\* MonoMidiReceiver::rising_gate: <<the value returned, the receiver after>>
MonoMidiReceiver_rising_gate(mr) ==
    IF mr.rising_gate THEN <<TRUE, [mr EXCEPT !.rising_gate = FALSE]>>
    ELSE <<FALSE, mr>>

\* MonoMidiReceiver::falling_gate: <<the value returned, the receiver after>>
MonoMidiReceiver_falling_gate(mr) ==
    IF mr.falling_gate THEN <<TRUE, [mr EXCEPT !.falling_gate = FALSE]>>
    ELSE <<FALSE, mr>>

\* MonoMidiReceiver::set_retrigger_mode
MonoMidiReceiver_set_retrigger_mode(mr, mode) ==
    [mr EXCEPT !.retrigger_mode = mode]

\* MonoMidiReceiver::set_note_priority
MonoMidiReceiver_set_note_priority(mr, priority) ==
    [mr EXCEPT !.note_priority = priority]

(***************************************************************************)
(* ribbon_controller.rs.  The controller is a record of its fields and of  *)
(* the capacity of its HistoryBuffer, the const generic BUFFER_CAPACITY;   *)
(* buff is the sequence of the samples in the buffer, oldest first.  The   *)
(* f32 values are in units of 1 / RibbonUnit.                              *)
(***************************************************************************)

\* the resolution of the ribbon's samples and values
RibbonUnit == 1000

RIBBON_FALL_TIME_USEC == 1000

RIBBON_RISE_TIME_USEC == 2000

MIN_CAPTURE_TIME_USEC == (RIBBON_FALL_TIME_USEC + RIBBON_RISE_TIME_USEC) * 5

\* sample_rate_to_capacity
sample_rate_to_capacity(sample_rate_hz) ==
    LET num_main_samples_to_care_about ==
            (sample_rate_hz * MIN_CAPTURE_TIME_USEC) \div 1000000
        num_to_discard_at_end ==
            (sample_rate_hz * RIBBON_RISE_TIME_USEC) \div 1000000
    IN  num_main_samples_to_care_about + num_to_discard_at_end + 1

\* RibbonController::<BUFFER_CAPACITY>::new
RibbonController_new(sample_rate_hz, softpot_ohms, dropper_resistor_ohms, pullup_resistor_ohms, BUFFER_CAPACITY) ==
    [ finger_press_high_boundary |->
          RibbonUnit - ((dropper_resistor_ohms * RibbonUnit)
                           \div (dropper_resistor_ohms + softpot_ohms)),
      error_const |->
          ((softpot_ohms + dropper_resistor_ohms) * RibbonUnit)
              \div pullup_resistor_ohms,
      current_val            |-> 0,
      finger_is_pressing     |-> FALSE,
      finger_just_pressed    |-> FALSE,
      finger_just_released   |-> FALSE,
      buff                   |-> <<>>,
      capacity               |-> BUFFER_CAPACITY,
      num_to_ignore_up_front |->
          (sample_rate_hz * RIBBON_FALL_TIME_USEC) \div 1000000,
      num_to_discard_at_end  |->
          (sample_rate_hz * RIBBON_RISE_TIME_USEC) \div 1000000,
      num_samples_received   |-> 0,
      num_samples_written    |-> 0 ]

\* RibbonController::error_estimate
RibbonController_error_estimate(rib, pos) ==
    ((pos - ((pos * pos) \div RibbonUnit)) * rib.error_const)
        \div RibbonUnit

\* HistoryBuffer::write: the oldest sample of a full buffer is overwritten
HistoryBuffer_write(buff, capacity, x) ==
    IF Len(buff) < capacity THEN Append(buff, x)
    ELSE Append(Tail(buff), x)

RECURSIVE SeqSum(_)
\* the sum of a sequence of numbers
SeqSum(s) == IF Len(s) = 0 THEN 0 ELSE s[1] + SeqSum(Tail(s))

\* the value poll computes from a full buffer: the mean of the oldest
\* capacity - num_to_discard_at_end samples less the error estimate
RibbonController_capture(rib, buff) ==
    LET num_to_take == rib.capacity - rib.num_to_discard_at_end
        mean == SeqSum(SubSeq(buff, 1, Min(num_to_take, Len(buff))))
                    \div num_to_take
    IN  mean - RibbonController_error_estimate(rib, mean)

\* RibbonController::poll losing the value when the finger is lifted
RibbonController_poll_clears_value(rib, raw_adc_value) ==
    IF raw_adc_value < rib.finger_press_high_boundary
    THEN
        LET received == Min(rib.num_samples_received + 1,
                            rib.num_to_ignore_up_front)
            counted  == [rib EXCEPT !.num_samples_received = received]
        IN  IF rib.num_to_ignore_up_front <= received
            THEN
                LET buff    == HistoryBuffer_write(rib.buff, rib.capacity,
                                                   raw_adc_value)
                    written == Min(rib.num_samples_written + 1, rib.capacity)
                    stored  == [counted EXCEPT !.buff = buff,
                                               !.num_samples_written = written]
                IN  IF written = rib.capacity
                    THEN [stored EXCEPT
                            !.current_val =
                                RibbonController_capture(rib, buff),
                            !.finger_just_pressed =
                                IF rib.finger_is_pressing THEN @ ELSE TRUE,
                            !.finger_is_pressing = TRUE]
                    ELSE stored
            ELSE counted
    ELSE
        IF rib.finger_is_pressing
        THEN [rib EXCEPT !.finger_just_released = TRUE,
                         !.num_samples_received = 0,
                         !.num_samples_written = 0,
                         !.finger_is_pressing = FALSE,
                         !.current_val = 0]
        ELSE rib

\* RibbonController::poll latching finger_just_pressed at every capture
RibbonController_poll_relatches(rib, raw_adc_value) ==
    IF raw_adc_value < rib.finger_press_high_boundary
    THEN
        LET received == Min(rib.num_samples_received + 1,
                            rib.num_to_ignore_up_front)
            counted  == [rib EXCEPT !.num_samples_received = received]
        IN  IF rib.num_to_ignore_up_front <= received
            THEN
                LET buff    == HistoryBuffer_write(rib.buff, rib.capacity,
                                                   raw_adc_value)
                    written == Min(rib.num_samples_written + 1, rib.capacity)
                    stored  == [counted EXCEPT !.buff = buff,
                                               !.num_samples_written = written]
                IN  IF written = rib.capacity
                    THEN [stored EXCEPT
                            !.current_val =
                                RibbonController_capture(rib, buff),
                            !.finger_just_pressed = TRUE,
                            !.finger_is_pressing = TRUE]
                    ELSE stored
            ELSE counted
    ELSE
        IF rib.finger_is_pressing
        THEN [rib EXCEPT !.finger_just_released = TRUE,
                         !.num_samples_received = 0,
                         !.num_samples_written = 0,
                         !.finger_is_pressing = FALSE]
        ELSE rib

\* RibbonController::poll
RibbonController_poll(rib, raw_adc_value) ==
    IF raw_adc_value < rib.finger_press_high_boundary
    THEN
        LET received == Min(rib.num_samples_received + 1,
                            rib.num_to_ignore_up_front)
            counted  == [rib EXCEPT !.num_samples_received = received]
        IN  IF rib.num_to_ignore_up_front <= received
            THEN
                LET buff    == HistoryBuffer_write(rib.buff, rib.capacity,
                                                   raw_adc_value)
                    written == Min(rib.num_samples_written + 1, rib.capacity)
                    stored  == [counted EXCEPT !.buff = buff,
                                               !.num_samples_written = written]
                IN  IF written = rib.capacity
                    THEN [stored EXCEPT
                            !.current_val =
                                RibbonController_capture(rib, buff),
                            !.finger_just_pressed =
                                IF rib.finger_is_pressing THEN @ ELSE TRUE,
                            !.finger_is_pressing = TRUE]
                    ELSE stored
            ELSE counted
    ELSE
        IF rib.finger_is_pressing
        THEN [rib EXCEPT !.finger_just_released = TRUE,
                         !.num_samples_received = 0,
                         !.num_samples_written = 0,
                         !.finger_is_pressing = FALSE]
        ELSE rib

\* RibbonController::value
RibbonController_value(rib) ==
    (rib.current_val * RibbonUnit) \div rib.finger_press_high_boundary

\* RibbonController::finger_just_pressed: <<the value returned, the
\* controller after>>
RibbonController_finger_just_pressed(rib) ==
    IF rib.finger_just_pressed
    THEN <<TRUE, [rib EXCEPT !.finger_just_pressed = FALSE]>>
    ELSE <<FALSE, rib>>

\* RibbonController::finger_just_released: <<the value returned, the
\* controller after>>
RibbonController_finger_just_released(rib) ==
    IF rib.finger_just_released
    THEN <<TRUE, [rib EXCEPT !.finger_just_released = FALSE]>>
    ELSE <<FALSE, rib>>

(***************************************************************************)
(* quantizer.rs.  The quantizer is a record of its fields; allowed is the  *)
(* u16 bitfield.  The f32 voltages (the input, stairstep, fraction and the *)
(* widths) are in units of 1 / 12 microvolt, in which the stairstep of     *)
(* every note number is a whole number; the u32 microvolts of              *)
(* find_nearest_note are integers.                                         *)
(***************************************************************************)

\* the units of one microvolt
UnitsPerMicrovolt == 12

ONE_OCTAVE_IN_MICROVOLTS == 1000000

HALF_STEP_IN_MICROVOLTS == ONE_OCTAVE_IN_MICROVOLTS \div 12

MAX_OCTAVE == 10

\* 1.0 V
OneVolt == ONE_OCTAVE_IN_MICROVOLTS * UnitsPerMicrovolt

V_MAX == MAX_OCTAVE * OneVolt

NUM_NOTES_PER_OCTAVE == 12

SEMITONE_WIDTH == OneVolt \div NUM_NOTES_PER_OCTAVE

HALF_SEMITONE_WIDTH == SEMITONE_WIDTH \div 2

\* SEMITONE_WIDTH * 0.1
HYSTERESIS == SEMITONE_WIDTH \div 10

\* f32::MIN, below the window of every input
F32_MIN == 0 - (2 ^ 30)

\* Note::new and From<u8> for Note: n clamped to [0..11]
Note_new(n) == IF n <= 11 THEN n ELSE 11

\* (allowed >> n) & 1 == 1
BitIsSet(allowed, n) == (allowed \div (2 ^ n)) % 2 = 1

\* Conversion::default
Conversion_default ==
    [note_num |-> 0, stairstep |-> F32_MIN, fraction |-> 0]

\* Quantizer::default and Quantizer::new: 0b0000_1111_1111_1111
Quantizer_new ==
    [cached_conversion |-> Conversion_default, allowed |-> 4095]

\* Quantizer::is_allowed
Quantizer_is_allowed(q, note) == BitIsSet(q.allowed, note)

\* delta
delta(v1, v2) == IF v1 < v2 THEN v2 - v1 ELSE v1 - v2

\* octaves_to_search of Quantizer::find_nearest_note
octaves_to_search(octave_num_of_vin) ==
    <<octave_num_of_vin>>
      \o (IF 1 <= octave_num_of_vin THEN <<octave_num_of_vin - 1>> ELSE <<>>)
      \o (IF octave_num_of_vin < MAX_OCTAVE
          THEN <<octave_num_of_vin + 1>> ELSE <<>>)

RECURSIVE find_nearest_note_loop(_, _, _, _, _, _, _)
\* the loops of Quantizer::find_nearest_note from the i-th octave to search
\* and the note n on; found is false while smallest_delta_so_far is
\* u32::MAX, which is above every delta
find_nearest_note_loop(q, vin_microvolts, octaves, i, n, found, so_far) ==
    IF i > Len(octaves)
    THEN so_far.nearest \div HALF_STEP_IN_MICROVOLTS
    ELSE IF n > 11
    THEN find_nearest_note_loop(q, vin_microvolts, octaves, i + 1, 0,
                                found, so_far)
    ELSE IF ~BitIsSet(q.allowed, n)
    THEN find_nearest_note_loop(q, vin_microvolts, octaves, i, n + 1,
                                found, so_far)
    ELSE
        LET candidate_note_microvolts ==
                n * HALF_STEP_IN_MICROVOLTS
                  + octaves[i] * ONE_OCTAVE_IN_MICROVOLTS
            d == delta(vin_microvolts, candidate_note_microvolts)
        IN  IF d < HALF_STEP_IN_MICROVOLTS
            THEN candidate_note_microvolts \div HALF_STEP_IN_MICROVOLTS
            ELSE IF found /\ so_far.smallest < d
            THEN so_far.nearest \div HALF_STEP_IN_MICROVOLTS
            ELSE IF ~found \/ d < so_far.smallest
            THEN find_nearest_note_loop(
                     q, vin_microvolts, octaves, i, n + 1, TRUE,
                     [smallest |-> d, nearest |-> candidate_note_microvolts])
            ELSE find_nearest_note_loop(q, vin_microvolts, octaves, i,
                                        n + 1, found, so_far)

\* Quantizer::find_nearest_note
Quantizer_find_nearest_note(q, v_in) ==
    LET vin_microvolts    == v_in \div UnitsPerMicrovolt
        octave_num_of_vin == vin_microvolts \div ONE_OCTAVE_IN_MICROVOLTS
    IN  find_nearest_note_loop(q, vin_microvolts,
                               octaves_to_search(octave_num_of_vin), 1, 0,
                               FALSE, [smallest |-> 0, nearest |-> 0])

\* Quantizer::convert: <<the Conversion returned, the quantizer after>>
Quantizer_convert(q, v_in) ==
    LET cached     == q.cached_conversion
        low_bound  == cached.stairstep - HYSTERESIS
        high_bound == cached.stairstep + SEMITONE_WIDTH + HYSTERESIS
    IN  IF /\ Quantizer_is_allowed(q, Note_new(cached.note_num))
           /\ low_bound < v_in
           /\ v_in < high_bound
        THEN <<cached, q>>
        ELSE
            LET clamped   == Min(Max(v_in, 0), V_MAX)
                note_num  == Quantizer_find_nearest_note(q, clamped)
                stairstep == (note_num * OneVolt) \div 12
                conv      == [note_num  |-> note_num,
                              stairstep |-> stairstep,
                              fraction  |-> clamped - stairstep]
            IN  <<conv, [q EXCEPT !.cached_conversion = conv]>>

RECURSIVE Quantizer_allow(_, _)
\* Quantizer::allow: allowed |= 1 << n.0 for each note of notes
Quantizer_allow(q, notes) ==
    IF Len(notes) = 0 THEN q
    ELSE Quantizer_allow(
             [q EXCEPT !.allowed =
                  IF BitIsSet(@, notes[1]) THEN @ ELSE @ + 2 ^ notes[1]],
             Tail(notes))

RECURSIVE ClearBits(_, _)
\* allowed &= !(1 << n.0) for each note of notes
ClearBits(allowed, notes) ==
    IF Len(notes) = 0 THEN allowed
    ELSE ClearBits(IF BitIsSet(allowed, notes[1])
                   THEN allowed - 2 ^ notes[1] ELSE allowed,
                   Tail(notes))

\* Quantizer::forbid without the note left allowed
Quantizer_forbid_every_note(q, notes) ==
    [q EXCEPT !.allowed = ClearBits(@, notes)]

\* Quantizer::forbid
Quantizer_forbid(q, notes) ==
    LET cleared == [q EXCEPT !.allowed = ClearBits(@, notes)]
    IN  IF cleared.allowed = 0
        THEN Quantizer_allow(cleared, SubSeq(notes, Len(notes), Len(notes)))
        ELSE cleared

(***************************************************************************)
(* The state.  Each component (the envelope, a phase accumulator on its    *)
(* own, the LFO, the MIDI receiver, the ribbon, the quantizer) has its     *)
(* variables and its specifications; a specification of one component      *)
(* leaves the variables of the others unchanged.                           *)
(***************************************************************************)

VARIABLES
    adsr,        \* the Adsr
    last_call,   \* the name of the method called last
    from_state,  \* the state the envelope was in when that method was called
    stage,       \* SpecScenario: the position in the tests' script
    nticks,      \* SpecScenario: the ticks made in the current stage
    pacc,        \* a PhaseAccumulator<24, 8>
    pa_call,     \* the name of its method called last
    pa_ret,      \* the value its last rolled_over() returned
    pa_prev,     \* the accumulator before the last call other than
                 \* rolled_over()
    pa_stage,    \* SpecPARun: the position in the tick-and-poll loop
    pa_ticks,    \* the ticks made since new, reset or set_phase
    pa_trues,    \* SpecPARun: the polls since then that returned true
    panicked,    \* the addition in tick() has panicked
    lfo,         \* the Lfo
    lfo_call,    \* the name of its method called last
    lfo_prev,    \* the Lfo before that call
    lfo_out,     \* <<the waveshape of the last get(), the value returned>>
    lfo_ticks,   \* the ticks the Lfo has made
    mr,          \* the MonoMidiReceiver
    midi_new_arg,\* the channel its constructor was called with
    midi_call,   \* its method called last: <<name, the type of the message
                 \* parsed, the channel of the message, the message is a
                 \* note-on of velocity > 0 or the read returned true>>
    midi_pressed,\* the notes pressed and not yet released, oldest first
    midi_played, \* a note-on of velocity > 0 has been taken
    ribbon,      \* the RibbonController
    rib_call,    \* its method called last: <<name, the sample polled, the
                 \* value the read returned>>
    rib_run,     \* the in-range polls since the last out-of-range poll
    quant,       \* the Quantizer
    q_call,      \* the name of its method called last
    q_vin,       \* the input of its last convert()
    q_notes,     \* the notes of its last allow() or forbid()
    q_ret        \* the Conversion its last convert() returned

adsrVars == <<adsr, last_call, from_state, stage, nticks>>

paVars ==
    <<pacc, pa_call, pa_ret, pa_prev, pa_stage, pa_ticks, pa_trues, panicked>>

lfoVars == <<lfo, lfo_call, lfo_prev, lfo_out, lfo_ticks>>

midiVars == <<mr, midi_new_arg, midi_call, midi_pressed, midi_played>>

ribVars == <<ribbon, rib_call, rib_run>>

quantVars == <<quant, q_call, q_vin, q_notes, q_ret>>

vars == <<adsrVars, paVars, lfoVars, midiVars, ribVars, quantVars>>

\* the sample rate and the widths the tests of phase_accumulator.rs use:
\* PhaseAccumulator::<24, 8>::new(1_000.0_f32)
PaSampleRate == F32Ratio(1000, 1)

PA_TOTAL_NUM_BITS == 24

PA_NUM_INDEX_BITS == 8

\* the phase accumulator after PhaseAccumulator::<24, 8>::new
PaInit ==
    /\ pacc = PhaseAccumulator_new(PaSampleRate, PA_TOTAL_NUM_BITS)
    /\ pa_call = "new"
    /\ pa_ret = FALSE
    /\ pa_prev = pacc
    /\ pa_stage = "free"
    /\ pa_ticks = 0
    /\ pa_trues = 0
    /\ panicked = FALSE

\* the sample rate the tests of lfo.rs construct the LFO with: 1_000.0_f32
LfoSampleRate == F32Ratio(1000, 1)

\* the LFO after Lfo::new
LfoInit ==
    /\ lfo = Lfo_new(LfoSampleRate)
    /\ lfo_call = "new"
    /\ lfo_prev = lfo
    /\ lfo_out = <<"none", 0>>
    /\ lfo_ticks = 0

\* the receiver after MonoMidiReceiver::new(channel)
MidiInitOf(channel) ==
    /\ mr = MonoMidiReceiver_new(channel)
    /\ midi_new_arg = channel
    /\ midi_call = <<"new", "-", 0, FALSE>>
    /\ midi_pressed = <<>>
    /\ midi_played = FALSE

\* the receiver the tests construct: MonoMidiReceiver::new(1)
MidiInit == MidiInitOf(1)

\* the sample rate the ribbon is polled at, in Hz
RibbonSampleRate == 2000

\* the ribbon of the tests, RibbonController::new(SAMPLE_RATE, 20E3, 820.0,
\* 1E6) with the capacity sample_rate_to_capacity(SAMPLE_RATE)
RibInit ==
    /\ ribbon = RibbonController_new(
                    RibbonSampleRate, 20000, 820, 1000000,
                    sample_rate_to_capacity(RibbonSampleRate))
    /\ rib_call = <<"new", 0, FALSE>>
    /\ rib_run = 0

\* the quantizer after Quantizer::new()
QuantInit ==
    /\ quant = Quantizer_new
    /\ q_call = "new"
    /\ q_vin = 0
    /\ q_notes = <<>>
    /\ q_ret = Conversion_default

(***************************************************************************)
(* The envelope as a state machine.  Its increments are those of periods   *)
(* between 1 ms and 20 s, for which the addition in tick() stays far below *)
(* 2^32.                                                                   *)
(***************************************************************************)

\* the sample rate the tests construct the envelope with: 1_000.0_f32
SampleRate == F32Ratio(1000, 1)

\* the f32 nearest to us microseconds, in seconds
Seconds(us) == F32Ratio(us, 1000000)

\* Input::Attack(t.into()), Input::Decay(t.into()), Input::Release(t.into())
\* for the times t of the set Us, in microseconds
TimeInputs(Us) ==
    {"Attack", "Decay", "Release"}
        \X {TimePeriod_from(Seconds(us)) : us \in Us}

\* Input::Sustain(l.into()) for the levels l of the set Ls
SustainInputs(Ls) == {"Sustain"} \X {SustainLevel_from(l) : l \in Ls}

\* the times the callers pass, in microseconds: one below the minimum
\* period and one above it
TimesUs == {500, MaxTimeInputUs}

\* the sustain levels the callers pass: below 0, 0, 1/2, 1, above 1
Levels == {0 - 1, 0, ONE \div 2, ONE, 2 * ONE}

Inputs == TimeInputs(TimesUs) \cup SustainInputs(Levels)

Init ==
    /\ adsr = Adsr_new(SampleRate)
    /\ last_call = "new"
    /\ from_state = "AtRest"
    /\ stage = "free"
    /\ nticks = 0
    /\ PaInit
    /\ LfoInit
    /\ MidiInit
    /\ RibInit
    /\ QuantInit

SetInput ==
    /\ UNCHANGED <<paVars, lfoVars, midiVars, ribVars, quantVars>>
    /\ \E input \in Inputs : adsr' = Adsr_set_input(adsr, input)
    /\ last_call' = "set_input"
    /\ from_state' = adsr.state
    /\ UNCHANGED <<stage, nticks>>

GateOn ==
    /\ UNCHANGED <<paVars, lfoVars, midiVars, ribVars, quantVars>>
    /\ adsr' = Adsr_gate_on(adsr)
    /\ last_call' = "gate_on"
    /\ from_state' = adsr.state
    /\ UNCHANGED <<stage, nticks>>

GateOff ==
    /\ UNCHANGED <<paVars, lfoVars, midiVars, ribVars, quantVars>>
    /\ adsr' = Adsr_gate_off(adsr)
    /\ last_call' = "gate_off"
    /\ from_state' = adsr.state
    /\ UNCHANGED <<stage, nticks>>

Tick ==
    /\ UNCHANGED <<paVars, lfoVars, midiVars, ribVars, quantVars>>
    /\ adsr' = Adsr_tick(adsr)
    /\ last_call' = "tick"
    /\ from_state' = adsr.state
    /\ UNCHANGED <<stage, nticks>>

Next == SetInput \/ GateOn \/ GateOff \/ Tick

Spec == Init /\ [][Next]_vars

(***************************************************************************)
(* The script of the tests attack_transitions_to_decay_after_ticks and     *)
(* transition_through_phases: set the four inputs, gate_on, TestTicks      *)
(* ticks, TestTicks more ticks, any number of further ticks, gate_off,     *)
(* TestTicks ticks.                                                        *)
(***************************************************************************)

\* the ticks the tests make per stage: for _ in 0..101
TestTicks == 101

\* the most ticks made between the second stage and gate_off
MaxHoldTicks == 3

\* the times set in the script, in microseconds; 100 ms is the tests'
ScenarioTimesUs == {1000, 3000, 50000, 100000}

\* the sustain levels set in the script; 1/2 is the tests'
ScenarioLevels == {ONE \div 2, ONE}

ScenarioInit ==
    /\ adsr = Adsr_new(SampleRate)
    /\ last_call = "new"
    /\ from_state = "AtRest"
    /\ stage = "set_attack"
    /\ nticks = 0
    /\ PaInit
    /\ LfoInit
    /\ MidiInit
    /\ RibInit
    /\ QuantInit

\* the script's four set_input calls, in the tests' order
ScenarioSetInput ==
    /\ UNCHANGED <<paVars, lfoVars, midiVars, ribVars, quantVars>>
    /\ stage \in {"set_attack", "set_decay", "set_sustain", "set_release"}
    /\ \E input \in TimeInputs(ScenarioTimesUs)
                       \cup SustainInputs(ScenarioLevels) :
          /\ input[1] = CASE stage = "set_attack"  -> "Attack"
                          [] stage = "set_decay"   -> "Decay"
                          [] stage = "set_sustain" -> "Sustain"
                          [] stage = "set_release" -> "Release"
          /\ adsr' = Adsr_set_input(adsr, input)
    /\ stage' = CASE stage = "set_attack"  -> "set_decay"
                  [] stage = "set_decay"   -> "set_sustain"
                  [] stage = "set_sustain" -> "set_release"
                  [] stage = "set_release" -> "gate_on"
    /\ last_call' = "set_input"
    /\ from_state' = adsr.state
    /\ UNCHANGED nticks

ScenarioGateOn ==
    /\ UNCHANGED <<paVars, lfoVars, midiVars, ribVars, quantVars>>
    /\ stage = "gate_on"
    /\ adsr' = Adsr_gate_on(adsr)
    /\ stage' = "ticks_1"
    /\ nticks' = 0
    /\ last_call' = "gate_on"
    /\ from_state' = adsr.state

\* one tick of a loop of TestTicks ticks
ScenarioTick ==
    /\ UNCHANGED <<paVars, lfoVars, midiVars, ribVars, quantVars>>
    /\ stage \in {"ticks_1", "ticks_2", "ticks_3"}
    /\ nticks < TestTicks
    /\ adsr' = Adsr_tick(adsr)
    /\ nticks' = nticks + 1
    /\ last_call' = "tick"
    /\ from_state' = adsr.state
    /\ UNCHANGED stage

\* the first loop is over, the second begins
ScenarioSecondLoop ==
    /\ UNCHANGED <<paVars, lfoVars, midiVars, ribVars, quantVars>>
    /\ stage = "ticks_1"
    /\ nticks = TestTicks
    /\ stage' = "ticks_2"
    /\ nticks' = 0
    /\ UNCHANGED <<adsr, last_call, from_state>>

\* the second loop is over: the envelope is left alone but for ticks
ScenarioHold ==
    /\ UNCHANGED <<paVars, lfoVars, midiVars, ribVars, quantVars>>
    /\ \/ stage = "ticks_2" /\ nticks = TestTicks /\ nticks' = 0
       \/ stage = "hold" /\ nticks < MaxHoldTicks /\ nticks' = nticks + 1
    /\ adsr' = Adsr_tick(adsr)
    /\ stage' = "hold"
    /\ last_call' = "tick"
    /\ from_state' = adsr.state

ScenarioGateOff ==
    /\ UNCHANGED <<paVars, lfoVars, midiVars, ribVars, quantVars>>
    /\ \/ stage = "ticks_2" /\ nticks = TestTicks
       \/ stage = "hold"
    /\ adsr' = Adsr_gate_off(adsr)
    /\ stage' = "ticks_3"
    /\ nticks' = 0
    /\ last_call' = "gate_off"
    /\ from_state' = adsr.state

ScenarioNext ==
    \/ ScenarioSetInput
    \/ ScenarioGateOn
    \/ ScenarioTick
    \/ ScenarioSecondLoop
    \/ ScenarioHold
    \/ ScenarioGateOff

SpecScenario == ScenarioInit /\ [][ScenarioNext]_vars

(***************************************************************************)
(* The envelope under a caller that never stops ticking: the inputs are    *)
(* set, gate_on() is called once, gate_off() at most once, and tick() is   *)
(* called for ever.  Beside the 1 kHz of the tests the envelope is built   *)
(* for 512 Hz, where the period of 1/512 s has the frequency 512 Hz and    *)
(* the increment 2^24 exactly.                                             *)
(***************************************************************************)

\* the sample rates Adsr::new is called with
LiveSampleRates == {SampleRate, F32Ratio(512, 1)}

\* the periods the caller passes, in seconds: 1/512, 1/128 and 3/1000
LiveTimes == {F32Ratio(1, 512), F32Ratio(1, 128), F32Ratio(3, 1000)}

\* the inputs of the caller
LiveInputs ==
    ({"Attack", "Decay", "Release"} \X {TimePeriod_from(t) : t \in LiveTimes})
        \cup SustainInputs({0, ONE \div 2, ONE})

LiveInit ==
    /\ \E sr \in LiveSampleRates : adsr = Adsr_new(sr)
    /\ last_call = "new"
    /\ from_state = "AtRest"
    /\ stage = "setup"
    /\ nticks = 0
    /\ PaInit
    /\ LfoInit
    /\ MidiInit
    /\ RibInit
    /\ QuantInit

LiveSetInput ==
    /\ UNCHANGED <<paVars, lfoVars, midiVars, ribVars, quantVars>>
    /\ stage = "setup"
    /\ \E input \in LiveInputs : adsr' = Adsr_set_input(adsr, input)
    /\ last_call' = "set_input"
    /\ from_state' = adsr.state
    /\ UNCHANGED <<stage, nticks>>

LiveGateOn ==
    /\ UNCHANGED <<paVars, lfoVars, midiVars, ribVars, quantVars>>
    /\ stage = "setup"
    /\ adsr' = Adsr_gate_on(adsr)
    /\ last_call' = "gate_on"
    /\ from_state' = adsr.state
    /\ stage' = "on"
    /\ UNCHANGED nticks

\* nticks is the parity of the number of ticks so far
LiveTick ==
    /\ UNCHANGED <<paVars, lfoVars, midiVars, ribVars, quantVars>>
    /\ stage \in {"on", "released"}
    /\ adsr' = Adsr_tick(adsr)
    /\ last_call' = "tick"
    /\ from_state' = adsr.state
    /\ nticks' = 1 - nticks
    /\ UNCHANGED stage

LiveGateOff ==
    /\ UNCHANGED <<paVars, lfoVars, midiVars, ribVars, quantVars>>
    /\ stage = "on"
    /\ adsr' = Adsr_gate_off(adsr)
    /\ last_call' = "gate_off"
    /\ from_state' = adsr.state
    /\ stage' = "released"
    /\ UNCHANGED nticks

LiveNext == LiveSetInput \/ LiveGateOn \/ LiveTick \/ LiveGateOff

\* one more tick() is called: of the steps of LiveNext only LiveTick changes
\* nticks, and it does so whenever the gate has been on
TickCalled == stage \in {"on", "released"} /\ nticks' = 1 - nticks

\* tick() keeps being called
SpecLive == LiveInit /\ [][LiveNext]_vars /\ WF_nticks(TickCalled)

(***************************************************************************)
(* The phase accumulator as a state machine: any sequence of its methods.  *)
(* The addition in tick() is a plain u32 addition: when the sum leaves the *)
(* u32 range the call panics in a build with overflow checks (PaTickPanics)*)
(* and wraps modulo 2^32 in a build without them (PaTick).                 *)
(***************************************************************************)

\* the most ticks made between two of new, reset and set_phase
MaxPaTicks == 4

\* the frequencies the callers pass, in Hz: 0, 250 (a quarter of the sample
\* rate), 750 (above half of it) and 256000 (the conversion saturates)
PaFrequencies == {F32Ratio(hz, 1) : hz \in {0, 250, 750, 256000}}

\* the periods the callers pass: 1 s and 1 ms, the periods of the tests
PaPeriods == {F32Ratio(1, 1), F32Ratio(1, 1000)}

\* the phases the callers pass: 0, 1/2, 1
PaPhases == {F32Ratio(0, 1), F32Ratio(1, 2), F32Ratio(1, 1)}

PaSetFrequency ==
    /\ pa_stage = "free" /\ ~panicked
    /\ \E freq_hz \in PaFrequencies :
          pacc' = PhaseAccumulator_set_frequency(pacc, freq_hz,
                                                 PA_TOTAL_NUM_BITS)
    /\ pa_call' = "set_frequency"
    /\ pa_prev' = pacc
    /\ UNCHANGED <<pa_ret, pa_stage, pa_ticks, pa_trues, panicked>>
    /\ UNCHANGED <<adsrVars, lfoVars, midiVars, ribVars, quantVars>>

PaSetPeriod ==
    /\ pa_stage = "free" /\ ~panicked
    /\ \E period_sec \in PaPeriods :
          pacc' = PhaseAccumulator_set_period(pacc, period_sec,
                                              PA_TOTAL_NUM_BITS)
    /\ pa_call' = "set_period"
    /\ pa_prev' = pacc
    /\ UNCHANGED <<pa_ret, pa_stage, pa_ticks, pa_trues, panicked>>
    /\ UNCHANGED <<adsrVars, lfoVars, midiVars, ribVars, quantVars>>

PaSetPhase ==
    /\ pa_stage = "free" /\ ~panicked
    /\ \E phase \in PaPhases :
          pacc' = PhaseAccumulator_set_phase(pacc, phase)
    /\ pa_call' = "set_phase"
    /\ pa_prev' = pacc
    /\ pa_ticks' = 0
    /\ UNCHANGED <<pa_ret, pa_stage, pa_trues, panicked>>
    /\ UNCHANGED <<adsrVars, lfoVars, midiVars, ribVars, quantVars>>

PaReset ==
    /\ pa_stage = "free" /\ ~panicked
    /\ pacc' = PhaseAccumulator_reset(pacc)
    /\ pa_call' = "reset"
    /\ pa_prev' = pacc
    /\ pa_ticks' = 0
    /\ UNCHANGED <<pa_ret, pa_stage, pa_trues, panicked>>
    /\ UNCHANGED <<adsrVars, lfoVars, midiVars, ribVars, quantVars>>

\* tick(), the addition not panicking
PaTick ==
    /\ pa_stage = "free" /\ ~panicked
    /\ pa_ticks < MaxPaTicks
    /\ pacc' = PhaseAccumulator_tick(pacc)
    /\ pa_call' = "tick"
    /\ pa_prev' = pacc
    /\ pa_ticks' = pa_ticks + 1
    /\ UNCHANGED <<pa_ret, pa_stage, pa_trues, panicked>>
    /\ UNCHANGED <<adsrVars, lfoVars, midiVars, ribVars, quantVars>>

\* tick(), the addition panicking
PaTickPanics ==
    /\ pa_stage = "free" /\ ~panicked
    /\ pa_ticks < MaxPaTicks
    /\ PhaseAccumulator_tick_overflows(pacc)
    /\ panicked' = TRUE
    /\ pa_call' = "tick"
    /\ pa_prev' = pacc
    /\ UNCHANGED <<pacc, pa_ret, pa_stage, pa_ticks, pa_trues>>
    /\ UNCHANGED <<adsrVars, lfoVars, midiVars, ribVars, quantVars>>

PaRolledOver ==
    /\ pa_stage = "free" /\ ~panicked
    /\ pa_ret' = PhaseAccumulator_rolled_over(pacc)[1]
    /\ pacc' = PhaseAccumulator_rolled_over(pacc)[2]
    /\ pa_call' = "rolled_over"
    /\ UNCHANGED <<pa_prev, pa_stage, pa_ticks, pa_trues, panicked>>
    /\ UNCHANGED <<adsrVars, lfoVars, midiVars, ribVars, quantVars>>

PaNext ==
    \/ PaSetFrequency
    \/ PaSetPeriod
    \/ PaSetPhase
    \/ PaReset
    \/ PaTick
    \/ PaTickPanics
    \/ PaRolledOver

SpecPA == Init /\ [][PaNext]_vars

(***************************************************************************)
(* The loop of a caller that polls: new, one set_period or set_frequency,  *)
(* then tick() and rolled_over() in turn, as the envelope does, with a     *)
(* reset() at any point between two rounds.  The increments stay at or     *)
(* below half the range, and the addition in tick() below 2^25.            *)
(***************************************************************************)

\* the ticks of one cycle in the test accum_rolls_over: for _ in 0..1000
TestCycleTicks == 1000

\* the most ticks made beyond one cycle
MaxExtraTicks == 2

\* the periods set in the loop: 1 s, the tests', and 4 ms
RunPeriods == {F32Ratio(1, 1), F32Ratio(4, 1000)}

\* the frequencies set in the loop, in Hz: 300 and 500, half the sample rate
RunFrequencies == {F32Ratio(300, 1), F32Ratio(500, 1)}

PaRunInit ==
    /\ adsr = Adsr_new(SampleRate)
    /\ last_call = "new"
    /\ from_state = "AtRest"
    /\ stage = "free"
    /\ nticks = 0
    /\ pacc = PhaseAccumulator_new(PaSampleRate, PA_TOTAL_NUM_BITS)
    /\ pa_call = "new"
    /\ pa_ret = FALSE
    /\ pa_prev = pacc
    /\ pa_stage = "set"
    /\ pa_ticks = 0
    /\ pa_trues = 0
    /\ panicked = FALSE
    /\ LfoInit
    /\ MidiInit
    /\ RibInit
    /\ QuantInit

RunSetPeriod ==
    /\ pa_stage = "set"
    /\ \E period_sec \in RunPeriods :
          pacc' = PhaseAccumulator_set_period(pacc, period_sec,
                                              PA_TOTAL_NUM_BITS)
    /\ pa_call' = "set_period"
    /\ pa_prev' = pacc
    /\ pa_stage' = "tick"
    /\ UNCHANGED <<pa_ret, pa_ticks, pa_trues, panicked>>
    /\ UNCHANGED <<adsrVars, lfoVars, midiVars, ribVars, quantVars>>

RunSetFrequency ==
    /\ pa_stage = "set"
    /\ \E freq_hz \in RunFrequencies :
          pacc' = PhaseAccumulator_set_frequency(pacc, freq_hz,
                                                 PA_TOTAL_NUM_BITS)
    /\ pa_call' = "set_frequency"
    /\ pa_prev' = pacc
    /\ pa_stage' = "tick"
    /\ UNCHANGED <<pa_ret, pa_ticks, pa_trues, panicked>>
    /\ UNCHANGED <<adsrVars, lfoVars, midiVars, ribVars, quantVars>>

RunTick ==
    /\ pa_stage = "tick"
    /\ pa_ticks < TestCycleTicks + MaxExtraTicks
    /\ pacc' = PhaseAccumulator_tick(pacc)
    /\ pa_call' = "tick"
    /\ pa_prev' = pacc
    /\ pa_ticks' = pa_ticks + 1
    /\ pa_stage' = "poll"
    /\ UNCHANGED <<pa_ret, pa_trues, panicked>>
    /\ UNCHANGED <<adsrVars, lfoVars, midiVars, ribVars, quantVars>>

RunPoll ==
    /\ pa_stage = "poll"
    /\ pa_ret' = PhaseAccumulator_rolled_over(pacc)[1]
    /\ pacc' = PhaseAccumulator_rolled_over(pacc)[2]
    /\ pa_trues' = IF pa_ret' THEN pa_trues + 1 ELSE pa_trues
    /\ pa_call' = "rolled_over"
    /\ pa_stage' = "tick"
    /\ UNCHANGED <<pa_prev, pa_ticks, panicked>>
    /\ UNCHANGED <<adsrVars, lfoVars, midiVars, ribVars, quantVars>>

RunReset ==
    /\ pa_stage = "tick"
    /\ pa_ticks > 0
    /\ pacc' = PhaseAccumulator_reset(pacc)
    /\ pa_call' = "reset"
    /\ pa_prev' = pacc
    /\ pa_ticks' = 0
    /\ pa_trues' = 0
    /\ UNCHANGED <<pa_ret, pa_stage, panicked>>
    /\ UNCHANGED <<adsrVars, lfoVars, midiVars, ribVars, quantVars>>

PaRunNext ==
    \/ RunSetPeriod
    \/ RunSetFrequency
    \/ RunTick
    \/ RunPoll
    \/ RunReset

SpecPARun == PaRunInit /\ [][PaRunNext]_vars

(***************************************************************************)
(* The LFO as a state machine: any sequence of set_frequency, tick and     *)
(* get.  Its increments stay at or below 2^24, and the addition in tick()  *)
(* below 2^25.                                                             *)
(***************************************************************************)

\* the most ticks the LFO makes
MaxLfoTicks == 4

\* the frequencies the callers pass at the sample rate of 1 kHz: 1000/2^24
\* Hz (the increment 1), 250 Hz (2^22), 500 Hz (2^23) and 1/0.001 Hz (the
\* f32 below 1000, the increment 2^24 - 1)
LfoFrequencies ==
    { F32Ratio(1000, 2 ^ 24), F32Ratio(250, 1), F32Ratio(500, 1),
      F32Div(F32Ratio(1, 1), F32Ratio(1, 1000)) }

LfoSetFrequency ==
    /\ \E freq \in LfoFrequencies : lfo' = Lfo_set_frequency(lfo, freq)
    /\ lfo_call' = "set_frequency"
    /\ lfo_prev' = lfo
    /\ UNCHANGED <<lfo_out, lfo_ticks>>
    /\ UNCHANGED <<adsrVars, paVars, midiVars, ribVars, quantVars>>

LfoTick ==
    /\ lfo_ticks < MaxLfoTicks
    /\ lfo' = Lfo_tick(lfo)
    /\ lfo_call' = "tick"
    /\ lfo_prev' = lfo
    /\ lfo_ticks' = lfo_ticks + 1
    /\ UNCHANGED lfo_out
    /\ UNCHANGED <<adsrVars, paVars, midiVars, ribVars, quantVars>>

\* get takes &self: it returns a value and assigns nothing
LfoGet ==
    /\ \E waveshape \in Waveshape :
          lfo_out' = <<waveshape, Lfo_get(lfo, waveshape)>>
    /\ lfo_call' = "get"
    /\ lfo_prev' = lfo
    /\ UNCHANGED <<lfo, lfo_ticks>>
    /\ UNCHANGED <<adsrVars, paVars, midiVars, ribVars, quantVars>>

LfoNext == LfoSetFrequency \/ LfoTick \/ LfoGet

SpecLfo == Init /\ [][LfoNext]_vars

(***************************************************************************)
(* The two users of the lookup tables.  Neither reads the other's state,   *)
(* so a run drives the envelope or the oscillator: the envelope while the  *)
(* oscillator is as Lfo::new left it, the oscillator while the envelope is *)
(* as Adsr::new left it.                                                   *)
(***************************************************************************)

TablesAdsr == lfo_call = "new" /\ Next

TablesLfo == last_call = "new" /\ LfoNext

TablesNext == TablesAdsr \/ TablesLfo

SpecTables == Init /\ [][TablesNext]_vars

(***************************************************************************)
(* The script of the test sqr_starts_high_and_then_goes_low: new,          *)
(* set_frequency, then ticks, with get at any point.                       *)
(***************************************************************************)

\* the ticks of the first half of the cycle in the test: for _ in 0..500
HalfCycleTicks == 500

\* the most ticks made beyond the half cycle
MaxLfoExtraTicks == 2

\* the frequencies set in the script, in Hz: 1, the test's, and 500
LfoRunFrequencies == {F32Ratio(1, 1), F32Ratio(500, 1)}

LfoRunSetFrequency ==
    /\ lfo_call = "new"
    /\ \E freq \in LfoRunFrequencies : lfo' = Lfo_set_frequency(lfo, freq)
    /\ lfo_call' = "set_frequency"
    /\ lfo_prev' = lfo
    /\ UNCHANGED <<lfo_out, lfo_ticks>>
    /\ UNCHANGED <<adsrVars, paVars, midiVars, ribVars, quantVars>>

LfoRunTick ==
    /\ lfo_call # "new"
    /\ lfo_ticks < HalfCycleTicks + MaxLfoExtraTicks
    /\ lfo' = Lfo_tick(lfo)
    /\ lfo_call' = "tick"
    /\ lfo_prev' = lfo
    /\ lfo_ticks' = lfo_ticks + 1
    /\ lfo_out' = <<"none", 0>>
    /\ UNCHANGED <<adsrVars, paVars, midiVars, ribVars, quantVars>>

LfoRunGet ==
    /\ \E waveshape \in Waveshape :
          lfo_out' = <<waveshape, Lfo_get(lfo, waveshape)>>
    /\ lfo_call' = IF lfo_call = "new" THEN "new" ELSE "get"
    /\ lfo_prev' = lfo
    /\ UNCHANGED <<lfo, lfo_ticks>>
    /\ UNCHANGED <<adsrVars, paVars, midiVars, ribVars, quantVars>>

LfoRunNext == LfoRunSetFrequency \/ LfoRunTick \/ LfoRunGet

SpecLfoRun == Init /\ [][LfoRunNext]_vars

(***************************************************************************)
(* The MIDI receiver as a state machine: complete messages in any order,   *)
(* the two setters and the two self-clearing reads.                        *)
(***************************************************************************)

\* the most notes held down at once
MaxHeldNotes == 3

\* the arguments of new: 1, the tests', and 200, which is clamped to 15
MidiChannelArgs == {1, 200}

\* the channels of the messages: 0x_1 and 0x_F
MidiChannels == {1, 15}

\* the notes played
MidiNotes == {42, 43, 44}

\* the messages the parser returns: note-ons of velocity 0 and 127,
\* note-offs, a pitch bend, control changes (all controllers off, all notes
\* off and the controller 3, which is not handled), and none
MidiMessages ==
    {[type |-> "NoteOn", ch |-> ch, d1 |-> note, d2 |-> vel] :
        ch \in MidiChannels, note \in MidiNotes, vel \in {0, 127}}
    \cup {[type |-> "NoteOff", ch |-> ch, d1 |-> note, d2 |-> 0] :
            ch \in MidiChannels, note \in MidiNotes}
    \cup {[type |-> "PitchBendChange", ch |-> ch, d1 |-> 16383, d2 |-> 0] :
            ch \in MidiChannels}
    \cup {[type |-> "ControlChange", ch |-> ch, d1 |-> c[1], d2 |-> c[2]] :
            ch \in MidiChannels,
            c \in {<<CC_ALL_CONTROLLERS_OFF, 0>>, <<CC_ALL_NOTES_OFF, 0>>,
                   <<3, 127>>}}
    \cup {[type |-> "None", ch |-> 0, d1 |-> 0, d2 |-> 0]}

MidiAnyInit ==
    /\ adsr = Adsr_new(SampleRate)
    /\ last_call = "new"
    /\ from_state = "AtRest"
    /\ stage = "free"
    /\ nticks = 0
    /\ PaInit
    /\ LfoInit
    /\ \E channel \in MidiChannelArgs : MidiInitOf(channel)
    /\ RibInit
    /\ QuantInit

\* mr.parse(byte) for the byte that completes msg
MidiParse ==
    \E msg \in MidiMessages :
        LET listened == msg.type # "None" /\ msg.ch = mr.channel
            note_on  == listened /\ msg.type = "NoteOn" /\ msg.d2 > 0
            note_off == /\ listened
                        /\ \/ msg.type = "NoteOff"
                           \/ msg.type = "NoteOn" /\ msg.d2 = 0
            all_off  == /\ listened
                        /\ msg.type = "ControlChange"
                        /\ msg.d1 = CC_ALL_NOTES_OFF
        IN  /\ note_on => Len(midi_pressed) < MaxHeldNotes
            /\ mr' = MonoMidiReceiver_parse(mr, msg)
            /\ midi_call' = <<"parse", msg.type, msg.ch,
                              msg.type = "NoteOn" /\ msg.d2 > 0>>
            /\ midi_pressed' =
                 IF note_on THEN Append(midi_pressed, msg.d1)
                 ELSE IF note_off
                      THEN SelectSeq(midi_pressed, LAMBDA n : n # msg.d1)
                      ELSE IF all_off THEN <<>> ELSE midi_pressed
            /\ midi_played' = (midi_played \/ note_on)
            /\ UNCHANGED midi_new_arg
            /\ UNCHANGED <<adsrVars, paVars, lfoVars, ribVars, quantVars>>

MidiSetRetriggerMode ==
    /\ \E mode \in RetriggerMode :
          mr' = MonoMidiReceiver_set_retrigger_mode(mr, mode)
    /\ midi_call' = <<"set_retrigger_mode", "-", 0, FALSE>>
    /\ UNCHANGED <<midi_new_arg, midi_pressed, midi_played>>
    /\ UNCHANGED <<adsrVars, paVars, lfoVars, ribVars, quantVars>>

MidiSetNotePriority ==
    /\ \E priority \in NotePriority :
          mr' = MonoMidiReceiver_set_note_priority(mr, priority)
    /\ midi_call' = <<"set_note_priority", "-", 0, FALSE>>
    /\ UNCHANGED <<midi_new_arg, midi_pressed, midi_played>>
    /\ UNCHANGED <<adsrVars, paVars, lfoVars, ribVars, quantVars>>

MidiRisingGate ==
    /\ mr' = MonoMidiReceiver_rising_gate(mr)[2]
    /\ midi_call' = <<"rising_gate", "-", 0, MonoMidiReceiver_rising_gate(mr)[1]>>
    /\ UNCHANGED <<midi_new_arg, midi_pressed, midi_played>>
    /\ UNCHANGED <<adsrVars, paVars, lfoVars, ribVars, quantVars>>

MidiFallingGate ==
    /\ mr' = MonoMidiReceiver_falling_gate(mr)[2]
    /\ midi_call' = <<"falling_gate", "-", 0, MonoMidiReceiver_falling_gate(mr)[1]>>
    /\ UNCHANGED <<midi_new_arg, midi_pressed, midi_played>>
    /\ UNCHANGED <<adsrVars, paVars, lfoVars, ribVars, quantVars>>

MidiNext ==
    \/ MidiParse
    \/ MidiSetRetriggerMode
    \/ MidiSetNotePriority
    \/ MidiRisingGate
    \/ MidiFallingGate

SpecMidi == MidiAnyInit /\ [][MidiNext]_vars

(***************************************************************************)
(* The ribbon as a state machine: polls of a pressed and of a released     *)
(* ribbon in any order, and the two self-clearing reads.                   *)
(***************************************************************************)

\* the polls that register a press on a fresh controller:
\* TEST_RIB_NUM_FOR_VALID_READING, (num_to_ignore_up_front - 1) + capacity
RibbonK == (ribbon.num_to_ignore_up_front - 1) + ribbon.capacity

\* the raw ADC values polled: 0.42, a finger on the ribbon, and 1.0, the
\* ribbon at rest
RibbonSamples == {(42 * RibbonUnit) \div 100, RibbonUnit}

RibPoll ==
    /\ \E raw_adc_value \in RibbonSamples :
          /\ ribbon' = RibbonController_poll(ribbon, raw_adc_value)
          /\ rib_call' = <<"poll", raw_adc_value, FALSE>>
          /\ rib_run' = IF raw_adc_value < ribbon.finger_press_high_boundary
                        THEN Min(rib_run + 1, RibbonK)
                        ELSE 0
    /\ UNCHANGED <<adsrVars, paVars, lfoVars, midiVars, quantVars>>

RibFingerJustPressed ==
    /\ ribbon' = RibbonController_finger_just_pressed(ribbon)[2]
    /\ rib_call' = <<"finger_just_pressed", 0,
                     RibbonController_finger_just_pressed(ribbon)[1]>>
    /\ UNCHANGED rib_run
    /\ UNCHANGED <<adsrVars, paVars, lfoVars, midiVars, quantVars>>

RibFingerJustReleased ==
    /\ ribbon' = RibbonController_finger_just_released(ribbon)[2]
    /\ rib_call' = <<"finger_just_released", 0,
                     RibbonController_finger_just_released(ribbon)[1]>>
    /\ UNCHANGED rib_run
    /\ UNCHANGED <<adsrVars, paVars, lfoVars, midiVars, quantVars>>

RibNext == RibPoll \/ RibFingerJustPressed \/ RibFingerJustReleased

SpecRibbon == Init /\ [][RibNext]_vars

(***************************************************************************)
(* The quantizer as a state machine: allow, forbid and convert in any      *)
(* order.                                                                  *)
(***************************************************************************)

\* Note::C .. Note::B in order, the list the tests forbid
AllNotes == <<0, 1, 2, 3, 4, 5, 6, 7, 8, 9, 10, 11>>

\* the note lists passed to allow and forbid: [C], [C#], [B], every note
\* (ending with B, and ending with C), every note but B, and none
QuantNoteLists ==
    { <<0>>, <<1>>, <<11>>, AllNotes, Tail(AllNotes) \o <<0>>,
      SubSeq(AllNotes, 1, 11), <<>> }

\* the note numbers about which the inputs lie: C# of the octaves 0 and 1
QuantNoteNums == {1, 13}

\* the inputs converted: 0 V, 0.5 V, V_MAX and, about each of the note
\* numbers, its stairstep, the stairstep less HYSTERESIS * 0.99, the
\* stairstep plus SEMITONE_WIDTH + HYSTERESIS * 0.99 and the stairstep
\* plus HALF_SEMITONE_WIDTH * 0.99
QuantInputs ==
    {0, OneVolt \div 2, V_MAX}
    \cup { n * SEMITONE_WIDTH + off :
             n \in QuantNoteNums,
             off \in { 0,
                       0 - ((HYSTERESIS * 99) \div 100),
                       SEMITONE_WIDTH + ((HYSTERESIS * 99) \div 100),
                       (HALF_SEMITONE_WIDTH * 99) \div 100 } }

QuantAllow ==
    /\ \E notes \in QuantNoteLists :
          /\ quant' = Quantizer_allow(quant, notes)
          /\ q_notes' = notes
    /\ q_call' = "allow"
    /\ UNCHANGED <<q_vin, q_ret>>
    /\ UNCHANGED <<adsrVars, paVars, lfoVars, midiVars, ribVars>>

QuantForbid ==
    /\ \E notes \in QuantNoteLists :
          /\ quant' = Quantizer_forbid(quant, notes)
          /\ q_notes' = notes
    /\ q_call' = "forbid"
    /\ UNCHANGED <<q_vin, q_ret>>
    /\ UNCHANGED <<adsrVars, paVars, lfoVars, midiVars, ribVars>>

QuantConvert ==
    /\ \E v_in \in QuantInputs :
          /\ quant' = Quantizer_convert(quant, v_in)[2]
          /\ q_ret' = Quantizer_convert(quant, v_in)[1]
          /\ q_vin' = v_in
    /\ q_call' = "convert"
    /\ UNCHANGED q_notes
    /\ UNCHANGED <<adsrVars, paVars, lfoVars, midiVars, ribVars>>

QuantNext == QuantAllow \/ QuantForbid \/ QuantConvert

SpecQuant == Init /\ [][QuantNext]_vars

(***************************************************************************)
(* Properties                                                              *)
(***************************************************************************)

pa == adsr.phase_accumulator

\* C1: gate_on() called in AtRest, Decay, Sustain or Release switches the
\* state to Attack in that call, stores the current output in
\* value_when_gate_on_received and resets the phase accumulator
\* (accumulator = 0, last_accumulator = 0, rolled_over = false).
C1_GateOnStartsAttack ==
    [][ (last_call' = "gate_on"
            /\ adsr.state \in {"AtRest", "Decay", "Sustain", "Release"})
        => /\ adsr'.state = "Attack"
           /\ adsr'.value_when_gate_on_received = adsr.value
           /\ adsr'.phase_accumulator.accumulator = 0
           /\ adsr'.phase_accumulator.last_accumulator = 0
           /\ adsr'.phase_accumulator.rolled_over = FALSE ]_vars

\* gate_on() has interrupted a release that was under way, above 0
C1_Witness ==
    /\ last_call = "gate_on"
    /\ from_state = "Release"
    /\ adsr.state = "Attack"
    /\ adsr.value_when_gate_on_received > 0
    /\ pa.accumulator = 0

\* C2: gate_off() called in Attack, Decay or Sustain switches the state to
\* Release in that call, stores the current output in
\* value_when_gate_off_received and resets the phase accumulator to 0.
C2_GateOffStartsRelease ==
    [][ (last_call' = "gate_off"
            /\ adsr.state \in {"Attack", "Decay", "Sustain"})
        => /\ adsr'.state = "Release"
           /\ adsr'.value_when_gate_off_received = adsr.value
           /\ adsr'.phase_accumulator.accumulator = 0
           /\ adsr'.phase_accumulator.last_accumulator = 0
           /\ adsr'.phase_accumulator.rolled_over = FALSE ]_vars

\* gate_off() has interrupted an attack that was under way
C2_Witness ==
    /\ last_call = "gate_off"
    /\ from_state = "Attack"
    /\ adsr.state = "Release"
    /\ adsr.value_when_gate_off_received > 0
    /\ adsr.value_when_gate_off_received < ONE
    /\ pa.accumulator = 0

\* C3: tick() changes the state only on a tick on which the accumulator
\* rolled over (its new value is below its value before the tick), and then
\* only Attack -> Decay, Decay -> Sustain or Release -> AtRest; it never
\* leaves Sustain or AtRest.
C3_TickTransitions ==
    [][ last_call' = "tick"
        => \/ adsr'.state = adsr.state
           \/ /\ <<adsr.state, adsr'.state>> \in
                    { <<"Attack", "Decay">>, <<"Decay", "Sustain">>,
                      <<"Release", "AtRest">> }
              /\ adsr'.phase_accumulator.accumulator
                    < adsr.phase_accumulator.accumulator ]_vars

\* a tick has ended a decay
C3_Witness ==
    /\ last_call = "tick"
    /\ from_state = "Decay"
    /\ adsr.state = "Sustain"

\* C4: gate_on() in Attack, and gate_off() in Release or AtRest, leave the
\* whole Adsr unchanged.
C4_RedundantGatesAreNoOps ==
    [][ (\/ last_call' = "gate_on" /\ adsr.state = "Attack"
         \/ last_call' = "gate_off" /\ adsr.state \in {"Release", "AtRest"})
        => adsr' = adsr ]_vars

\* gate_on() has arrived during an attack that was under way
C4_Witness ==
    /\ last_call = "gate_on"
    /\ from_state = "Attack"
    /\ adsr.state = "Attack"
    /\ pa.accumulator > 0
    /\ adsr.value > adsr.value_when_gate_on_received

\* the increment set_period derives from the attack time
AttackIncrement ==
    U32ToInt(PhaseAccumulator_set_period(pa, adsr.attack_time,
                                         TOT_NUM_ACCUM_BITS).increment)

\* the least k with k * b >= a
CeilDiv(a, b) == (a + b - 1) \div b

\* C5: after gate_on() from AtRest, with the attack increment inc constant,
\* 0 < inc < 2^N, and no further gate event, the state is Attack after each
\* of the first ceil(2^N / inc) - 1 ticks and Decay after tick number
\* ceil(2^N / inc); with a 100 ms attack at 1 kHz, inc = 167772, the state
\* is Attack after 100 ticks and Decay after the 101st.
C5_AttackLength ==
    stage = "ticks_1" =>
        /\ (0 < AttackIncrement /\ AttackIncrement < 2 ^ TOT_NUM_ACCUM_BITS)
           => /\ nticks < CeilDiv(2 ^ TOT_NUM_ACCUM_BITS, AttackIncrement)
                 => adsr.state = "Attack"
              /\ nticks = CeilDiv(2 ^ TOT_NUM_ACCUM_BITS, AttackIncrement)
                 => adsr.state = "Decay"
        /\ adsr.attack_time = Seconds(100000)
           => /\ AttackIncrement = 167772
              /\ nticks <= 100 => adsr.state = "Attack"
              /\ nticks = 101 => adsr.state = "Decay"

\* the 101st tick of a 100 ms attack has been made
C5_Witness ==
    /\ stage = "ticks_1"
    /\ nticks = 101
    /\ adsr.attack_time = Seconds(100000)
    /\ adsr.state = "Decay"

\* the inputs of transition_through_phases
TestInputs ==
    /\ adsr.attack_time = Seconds(100000)
    /\ adsr.decay_time = Seconds(100000)
    /\ adsr.release_time = Seconds(100000)
    /\ adsr.sustain_level = ONE \div 2

\* C6: with attack = decay = release = 0.1 s, sustain = 0.5 and a 1 kHz
\* sample rate, gate_on() and 101 ticks leave the state Decay, 101 more
\* ticks leave it Sustain, it stays Sustain until gate_off(), which makes it
\* Release, and 101 more ticks leave it AtRest.
C6_TransitionThroughPhases ==
    TestInputs =>
        /\ (stage = "ticks_1" /\ nticks = 101) => adsr.state = "Decay"
        /\ (stage = "ticks_2" /\ nticks = 101) => adsr.state = "Sustain"
        /\ stage = "hold" => adsr.state = "Sustain"
        /\ (stage = "ticks_3" /\ nticks = 0) => adsr.state = "Release"
        /\ (stage = "ticks_3" /\ nticks = 101) => adsr.state = "AtRest"

\* the whole script has run, with ticks between the decay and gate_off
C6_Witness ==
    /\ TestInputs
    /\ stage = "ticks_3"
    /\ nticks = 101
    /\ adsr.state = "AtRest"
    /\ adsr.value = 0

\* C7: when gate_on() is called in Decay, Sustain or Release, the output
\* after the call equals the output before it, the anchor
\* value_when_gate_on_received equals that value, and the new attack
\* segment, (1 - anchor) * sample + anchor, starts from the anchor.
C7_RetriggerContinuity ==
    [][ (last_call' = "gate_on"
            /\ adsr.state \in {"Decay", "Sustain", "Release"})
        => /\ adsr'.value = adsr.value
           /\ adsr'.value_when_gate_on_received = adsr.value
           /\ Adsr_calc_value(adsr') = adsr.value ]_vars

\* gate_on() has interrupted a decay above the sustain level
C7_Witness ==
    /\ last_call = "gate_on"
    /\ from_state = "Decay"
    /\ adsr.state = "Attack"
    /\ adsr.value > adsr.sustain_level
    /\ adsr.value > 0
    /\ adsr.value < ONE

\* C8: the output and the two anchors are within [0, 1] in every reachable
\* state.
C8_ValueInRange ==
    /\ 0 <= adsr.value /\ adsr.value <= ONE
    /\ 0 <= adsr.value_when_gate_on_received
    /\ adsr.value_when_gate_on_received <= ONE
    /\ 0 <= adsr.value_when_gate_off_received
    /\ adsr.value_when_gate_off_received <= ONE

\* a retriggered attack has reached the top, from anchors inside (0, 1)
C8_Witness ==
    /\ last_call = "tick"
    /\ adsr.state = "Attack"
    /\ adsr.value = ONE
    /\ adsr.value_when_gate_on_received > 0
    /\ adsr.value_when_gate_off_received > 0
    /\ adsr.value_when_gate_off_received < ONE

\* C9: a tick in Sustain sets the output to exactly the sustain level, a
\* tick in AtRest sets it to exactly 0, and neither touches the phase
\* accumulator (accumulator, last_accumulator, increment, rolled_over).
C9_StaticStatesTick ==
    [][ (last_call' = "tick" /\ adsr.state \in {"Sustain", "AtRest"})
        => /\ adsr'.phase_accumulator = adsr.phase_accumulator
           /\ adsr'.state = adsr.state
           /\ adsr'.value = IF adsr.state = "Sustain"
                            THEN adsr.sustain_level ELSE 0 ]_vars

\* a tick in Sustain, the accumulator left where the decay ended
C9_Witness ==
    /\ last_call = "tick"
    /\ from_state = "Sustain"
    /\ adsr.state = "Sustain"
    /\ pa.accumulator > 0
    /\ adsr.value = ONE \div 2

\* the fields of the Adsr that are not inputs
NoInput(a) ==
    <<a.state, a.value, a.value_when_gate_on_received,
      a.value_when_gate_off_received, a.phase_accumulator>>

\* C10: set_input changes only the one named parameter: the state, the
\* output, both anchors and the phase accumulator are unchanged.
C10_SetInputFrame ==
    [][ last_call' = "set_input"
        => /\ NoInput(adsr') = NoInput(adsr)
           /\ \/ adsr' = [adsr EXCEPT !.attack_time = adsr'.attack_time]
              \/ adsr' = [adsr EXCEPT !.decay_time = adsr'.decay_time]
              \/ adsr' = [adsr EXCEPT !.sustain_level = adsr'.sustain_level]
              \/ adsr' = [adsr EXCEPT !.release_time = adsr'.release_time]
       ]_vars

\* the sustain level has been changed during Sustain: the output is still
\* the level of the tick before
C10_Witness ==
    /\ last_call = "set_input"
    /\ from_state = "Sustain"
    /\ adsr.state = "Sustain"
    /\ adsr.value # adsr.sustain_level
    /\ pa.accumulator > 0

(***************************************************************************)
(* Properties of the phase accumulator                                     *)
(***************************************************************************)

\* the increment of the phase accumulator, when it is below 2^31
PaInc == U32ToInt(pacc.increment)

\* C11: after any sequence of new, set_frequency, set_period, set_phase(p)
\* with 0 <= p <= 1, tick, rolled_over and reset, the accumulator is
\* between 0 and rollover_mask = 2^N - 1, and ramp() is in [0, 1).
C11_AccumulatorInRange ==
    /\ pacc.rollover_mask = (2 ^ PA_TOTAL_NUM_BITS) - 1
    /\ 0 <= pacc.accumulator
    /\ pacc.accumulator <= pacc.rollover_mask
    /\ 0 <= PhaseAccumulator_ramp(pacc)
    /\ PhaseAccumulator_ramp(pacc) < 2 ^ PA_TOTAL_NUM_BITS

\* a tick from the top of the range, which set_phase(1.0) reaches
C11_Witness ==
    /\ pa_call = "tick"
    /\ pa_prev.accumulator = pa_prev.rollover_mask
    /\ pacc.accumulator < pa_prev.accumulator

\* C12: in every reachable state, the state directly after set_phase(p)
\* included, a tick() that returns sets the accumulator to
\* (accumulator + increment) mod 2^N and latches rolled_over whenever the
\* new accumulator is less than the accumulator just before that tick.
C12_TickLatchesEveryWrap ==
    [][(pa_call' = "tick" /\ ~panicked')
          => /\ pacc'.accumulator =
                   ( pacc.accumulator + pacc.increment[2]
                     + (pacc.increment[1] % (2 ^ (PA_TOTAL_NUM_BITS - 16)))
                       * (2 ^ 16) ) % (2 ^ PA_TOTAL_NUM_BITS)
             /\ (pacc'.accumulator < pacc.accumulator
                   => pacc'.rolled_over)]_vars

\* C13: from a reset accumulator, with a constant increment
\* 0 < inc <= 2^(N-1) and rolled_over() polled once after every tick, the
\* poll returns true exactly after the ticks on which accumulator + inc
\* reached or passed 2^N, so that after n ticks floor(n * inc / 2^N) polls
\* have returned true: one per full cycle of the ramp.
C13_PolledRolloverMarksWraps ==
    (pa_stage = "tick" /\ pa_call = "rolled_over")
        => /\ 0 < PaInc /\ PaInc <= 2 ^ (PA_TOTAL_NUM_BITS - 1)
           /\ pa_ret = (pa_prev.accumulator + PaInc >= 2 ^ PA_TOTAL_NUM_BITS)
           /\ pa_trues = MulDiv(pa_ticks, PaInc, 2 ^ PA_TOTAL_NUM_BITS)

\* the poll after the 1001st tick of the 1 s period at 1 kHz: the first true
C13_Witness ==
    /\ pa_stage = "tick" /\ pa_call = "rolled_over"
    /\ PaInc = 16777
    /\ pa_ticks = TestCycleTicks + 1
    /\ pa_ret
    /\ pa_trues = 1

\* C14: rolled_over() returns the latched flag and leaves it false, and
\* changes nothing else; a second read without a tick in between returns
\* false; the flag stays latched over ticks and frequency changes, further
\* wraps included, until it is read or reset.
C14_RolledOverIsConsumingRead ==
    [][/\ pa_call' = "rolled_over"
            => /\ pa_ret' = pacc.rolled_over
               /\ pacc' = [pacc EXCEPT !.rolled_over = FALSE]
       /\ (pa_call = "rolled_over" /\ pa_call' = "rolled_over")
            => pa_ret' = FALSE
       /\ (pacc.rolled_over
             /\ pa_call' \in {"tick", "set_frequency", "set_period"})
            => pacc'.rolled_over]_vars

\* a second wrap while the flag of an earlier one is still latched
C14_Witness ==
    /\ pa_call = "tick"
    /\ ~panicked
    /\ pa_prev.rolled_over
    /\ pacc.accumulator < pa_prev.accumulator
    /\ pacc.rolled_over

\* the increment of the LFO
LfoInc == U32ToInt(lfo.phase_accumulator.increment)

\* C15: with an increment 0 < inc <= 2^(N-1), a tick() either adds exactly
\* inc to the accumulator, and with it inc / 2^N to ramp() and twice that
\* to the UpSaw output, or wraps the accumulator to a value below inc; the
\* ramp decreases only on a wrapping tick.
C15_TickAddsIncOrWraps ==
    [][(lfo_call' = "tick" /\ 0 < LfoInc
            /\ LfoInc <= 2 ^ (LFO_TOT_NUM_ACCUM_BITS - 1))
          => \/ /\ lfo'.phase_accumulator.accumulator
                      = lfo.phase_accumulator.accumulator + LfoInc
                /\ PhaseAccumulator_ramp(lfo'.phase_accumulator)
                      = PhaseAccumulator_ramp(lfo.phase_accumulator) + LfoInc
                /\ Lfo_get(lfo', "UpSaw")
                      = Lfo_get(lfo, "UpSaw") + 2 * LfoInc
             \/ /\ lfo.phase_accumulator.accumulator + LfoInc
                      >= 2 ^ LFO_TOT_NUM_ACCUM_BITS
                /\ lfo'.phase_accumulator.accumulator < LfoInc
                /\ PhaseAccumulator_ramp(lfo'.phase_accumulator)
                      < PhaseAccumulator_ramp(lfo.phase_accumulator)]_vars

\* a wrapping tick of an increment within half the range
C15_Witness ==
    /\ lfo_call = "tick"
    /\ 0 < LfoInc /\ LfoInc <= 2 ^ (LFO_TOT_NUM_ACCUM_BITS - 1)
    /\ lfo.phase_accumulator.increment = lfo_prev.phase_accumulator.increment
    /\ lfo.phase_accumulator.accumulator
          < lfo_prev.phase_accumulator.accumulator

\* C16: index() is the top M bits of the accumulator, accumulator >> (N - M),
\* and lies in [0, 2^M - 1]; for N = 24, M = 8 and the increment 16777 it
\* is 0 before any tick and 127 after 500 ticks.
C16_IndexIsTopBits ==
    LET i == PhaseAccumulator_index(pacc, PA_TOTAL_NUM_BITS,
                                    PA_NUM_INDEX_BITS)
        w == 2 ^ (PA_TOTAL_NUM_BITS - PA_NUM_INDEX_BITS)
    IN  /\ 0 <= i /\ i <= (2 ^ PA_NUM_INDEX_BITS) - 1
        /\ i * w <= pacc.accumulator /\ pacc.accumulator < (i + 1) * w
        /\ (PaInc = 16777 /\ pa_ticks = 0) => i = 0
        /\ (PaInc = 16777 /\ pa_ticks = 500) => i = 127

\* half way through the cycle of the test index_bits_update_after_ticks
C16_Witness ==
    /\ PaInc = 16777
    /\ pa_ticks = 500
    /\ PhaseAccumulator_index(pacc, PA_TOTAL_NUM_BITS, PA_NUM_INDEX_BITS)
          = 127

\* C17: fraction() is the fractional part of the accumulator, determined by
\* its low N - M bits only: it is 0 whenever those bits are 0.
C17_FractionOfLowBits ==
    (pacc.accumulator % (2 ^ (PA_TOTAL_NUM_BITS - PA_NUM_INDEX_BITS)) = 0)
        => PhaseAccumulator_fraction(pacc) = 0

\* C18: for every increment set_frequency can store and every accumulator
\* value, the sum accumulator + increment that tick() computes stays within
\* the u32 range, and tick() raises no error.
C18_TickSumInU32 ==
    /\ ~PhaseAccumulator_tick_overflows(pacc)
    /\ ~panicked

(***************************************************************************)
(* Properties of the LFO                                                   *)
(***************************************************************************)

\* C19: for every accumulator value, get(DownSaw) is the negation of
\* get(UpSaw), and get(UpSaw) is 2 * ramp() - 1; get leaves the LFO as it
\* is.
C19_DownSawNegatesUpSaw ==
    [][/\ Lfo_get(lfo', "DownSaw") = 0 - Lfo_get(lfo', "UpSaw")
       /\ Lfo_get(lfo', "UpSaw")
             = 2 * lfo'.phase_accumulator.accumulator
               - 2 ^ LFO_TOT_NUM_ACCUM_BITS
       /\ lfo_call' = "get"
            => /\ lfo' = lfo
               /\ lfo_out'[1] = "DownSaw"
                    => lfo_out'[2] = 0 - Lfo_get(lfo, "UpSaw")]_vars

\* get(DownSaw) read after ticks, at a nonzero output
C19_Witness ==
    /\ lfo_call = "get"
    /\ lfo_ticks > 0
    /\ lfo_out[1] = "DownSaw"
    /\ lfo_out[2] > 0

\* get(Triangle) of the LFO with the accumulator set to a
TriangleAt(a) ==
    Lfo_get([lfo EXCEPT !.phase_accumulator.accumulator = a], "Triangle")

\* C20: with r = 4 * a / 2^N for the accumulator a, get(Triangle) is r if
\* r < 1, 2 - r if 1 <= r < 3 and r - 4 otherwise: 0 at a = 0, +1 at 2^N/4,
\* 0 at 2^N/2, -1 at 3 * 2^N/4, within [-1, 1], and the outputs of a and of
\* its successor (0 after 2^N - 1) differ by exactly 4 / 2^N.
C20_TriangleShape ==
    LET a    == lfo.phase_accumulator.accumulator
        n    == 2 ^ LFO_TOT_NUM_ACCUM_BITS
        t    == Lfo_get(lfo, "Triangle")
        next == TriangleAt((a + 1) % n)
    IN  /\ t = IF 4 * a < n THEN 4 * a
               ELSE IF 4 * a < 3 * n THEN 2 * n - 4 * a
               ELSE 4 * a - 4 * n
        /\ a = 0 => t = 0
        /\ a = n \div 4 => t = n
        /\ a = n \div 2 => t = 0
        /\ a = 3 * (n \div 4) => t = 0 - n
        /\ 0 - n <= t /\ t <= n
        /\ next - t \in {4, 0 - 4}

\* get(Triangle) read at the trough, three quarters into the cycle
C20_Witness ==
    /\ lfo_call = "get"
    /\ lfo.phase_accumulator.accumulator
          = 3 * ((2 ^ LFO_TOT_NUM_ACCUM_BITS) \div 4)
    /\ lfo_out = <<"Triangle", 0 - LFO_ONE>>

\* C21: get(Square) is +1 exactly while ramp() < 0.5, that is while the
\* accumulator is below 2^(N-1), and -1 otherwise; at 1 Hz and 1 kHz (the
\* increment 16777) it is +1 before any tick and after 500 ticks and -1
\* after the 501st.
C21_SquareFollowsHalfCycle ==
    LET sq == Lfo_get(lfo, "Square")
    IN  /\ sq \in {LFO_ONE, 0 - LFO_ONE}
        /\ sq = LFO_ONE
             <=> lfo.phase_accumulator.accumulator
                   < 2 ^ (LFO_TOT_NUM_ACCUM_BITS - 1)
        /\ (LfoInc = 16777 /\ lfo_ticks \in {0, HalfCycleTicks})
             => sq = LFO_ONE
        /\ (LfoInc = 16777 /\ lfo_ticks = HalfCycleTicks + 1)
             => sq = 0 - LFO_ONE
        /\ (lfo_call = "get" /\ lfo_out[1] = "Square") => lfo_out[2] = sq

\* get(Square) read after the 501st tick of the test: the low half
C21_Witness ==
    /\ LfoInc = 16777
    /\ lfo_ticks = HalfCycleTicks + 1
    /\ lfo_call = "get"
    /\ lfo_out = <<"Square", 0 - LFO_ONE>>

\* C22: for every index, the entries get(Sine) interpolates are
\* table[index()] and table[(index() + 1) mod table_size]: the successor of
\* table_size - 2 is table_size - 1 and that of table_size - 1 is 0.
C22_SineSuccessorWraps ==
    /\ Lfo_sine_lut_idx(lfo) \in 0 .. SINE_LUT_SIZE - 1
    /\ Lfo_sine_next_lut_idx(lfo)
          = (Lfo_sine_lut_idx(lfo) + 1) % SINE_LUT_SIZE

\* the channel the receiver was constructed to listen to
ListenedChannel == Min(midi_new_arg, 15)

\* the last call was parse completing a message of the given types on the
\* listened channel
ParsedListened(types) ==
    /\ midi_call[1] = "parse"
    /\ midi_call[2] \in types
    /\ midi_call[3] = ListenedChannel

\* the last call took a note-on of velocity > 0
TookNoteOn == ParsedListened({"NoteOn"}) /\ midi_call[4]

\* the last call took a note-off or a note-on of velocity 0
TookNoteOff ==
    \/ ParsedListened({"NoteOff"})
    \/ ParsedListened({"NoteOn"}) /\ ~midi_call[4]

\* C23: after any sequence of messages gate() is true if and only if a note
\* is held down, that is the held-note list is not empty.
C23_GateIffNoteHeld ==
    /\ mr.gate <=> Len(mr.held_down_notes) > 0
    /\ mr.gate <=> Len(midi_pressed) > 0

\* a note-off has left another note held, and the gate on
C23_Witness ==
    /\ TookNoteOff
    /\ Len(midi_pressed) = 1
    /\ mr.gate

\* C24: in NoRetrigger mode a note-on latches the rising gate only when no
\* note is held at that moment, and otherwise leaves a consumed rising gate
\* consumed; in AllowRetrigger mode every note-on of velocity > 0 latches
\* it; rising_gate() returns the latch and clears it.
C24_RisingGateRetrigger ==
    [][ /\ TookNoteOn' =>
             IF mr.retrigger_mode = "AllowRetrigger"
             THEN mr'.rising_gate
             ELSE mr'.rising_gate = (mr.rising_gate \/ midi_pressed = <<>>)
        /\ midi_call'[1] = "rising_gate" =>
             /\ midi_call'[4] = mr.rising_gate
             /\ ~mr'.rising_gate ]_vars

\* in NoRetrigger mode a second note was pressed while the first was held,
\* and the rising gate consumed before stays consumed
C24_Witness ==
    /\ TookNoteOn
    /\ mr.retrigger_mode = "NoRetrigger"
    /\ Len(midi_pressed) = 2
    /\ ~mr.rising_gate

\* C25: a falling gate is latched, and falling_gate() returns true, only
\* after a note-on of velocity > 0 on the listened channel: a note-off or a
\* note-on of velocity 0 taken while no note was ever played latches none.
C25_FallingGateAfterNotePlayed ==
    /\ mr.falling_gate => midi_played
    /\ (midi_call[1] = "falling_gate" /\ midi_call[4]) => midi_played

\* the note the priority selects among the notes pressed and not released
PriorityNote(pressed, priority) ==
    CASE priority = "Last" -> pressed[Len(pressed)]
      [] priority = "High" -> SeqMax(pressed)
      [] priority = "Low"  -> SeqMin(pressed)

\* C26: after a note-on or note-off that leaves a note held, with at most
\* HELD_DOWN_NOTE_BUFFER_LEN notes held, note_num() is the last pressed,
\* the highest or the lowest held note as the priority says; after the
\* release of the last held note it keeps its value.
C26_NotePriority ==
    [][ (TookNoteOn' \/ TookNoteOff') =>
            IF midi_pressed' = <<>>
            THEN mr'.note_num = mr.note_num
            ELSE Len(midi_pressed') <= HELD_DOWN_NOTE_BUFFER_LEN =>
                   mr'.note_num =
                       PriorityNote(midi_pressed', mr'.note_priority) ]_vars

\* under Low priority the note-off of the highest of three notes has left
\* two notes held of which the last pressed is not the lowest
C26_Witness ==
    /\ TookNoteOff
    /\ mr.note_priority = "Low"
    /\ midi_pressed = <<42, 43>>
    /\ mr.note_num = 42

\* C27: the channel listened to is the constructor's argument clamped to
\* [0, 15], and a complete note-on, note-off, pitch-bend or control-change
\* message on any other channel leaves every field of the receiver
\* unchanged.
C27_OtherChannelsIgnored ==
    [][ /\ mr.channel = ListenedChannel
        /\ ( /\ midi_call'[1] = "parse"
             /\ midi_call'[2] # "None"
             /\ midi_call'[3] # ListenedChannel ) => mr' = mr ]_vars

\* a receiver constructed with 200 and holding a note has been sent a
\* note-off on channel 1
C27_Witness ==
    /\ midi_new_arg = 200
    /\ midi_call = <<"parse", "NoteOff", 1, FALSE>>
    /\ mr.gate
    /\ mr.channel = 15

\* the last poll was of a sample in the pressing range
PolledInRange ==
    /\ rib_call[1] = "poll"
    /\ rib_call[2] < ribbon.finger_press_high_boundary

\* the last poll was of a sample out of the pressing range
PolledOutOfRange ==
    /\ rib_call[1] = "poll"
    /\ rib_call[2] >= ribbon.finger_press_high_boundary

\* C28: finger_is_pressing() becomes true only on a poll that completes at
\* least K = (num_to_ignore_up_front - 1) + BUFFER_CAPACITY consecutive
\* in-range polls, and is true once K consecutive in-range polls are
\* complete, from every state in which the finger is not registered.
C28_DeadZoneOfKPolls ==
    [][ /\ (~ribbon.finger_is_pressing /\ ribbon'.finger_is_pressing)
             => rib_run' >= RibbonK
        /\ rib_run' >= RibbonK => ribbon'.finger_is_pressing ]_vars

\* C29: an out-of-range poll leaves finger_is_pressing() false, latches
\* finger_just_released if the finger was pressing, and does not change
\* value(), whether or not the finger was pressing before it.
C29_ReleaseKeepsValue ==
    [][ PolledOutOfRange' =>
          /\ ~ribbon'.finger_is_pressing
          /\ ribbon.finger_is_pressing => ribbon'.finger_just_released
          /\ RibbonController_value(ribbon')
               = RibbonController_value(ribbon)
          /\ ribbon'.current_val = ribbon.current_val ]_vars

\* a single out-of-range poll has ended a registered press, with the
\* captured position retained
C29_Witness ==
    /\ PolledOutOfRange
    /\ ~ribbon.finger_is_pressing
    /\ ribbon.finger_just_released
    /\ ribbon.num_samples_written = 0
    /\ RibbonController_value(ribbon) > 0

\* C30: a poll latches finger_just_pressed exactly when it changes
\* finger_is_pressing() from false to true and otherwise leaves the latch
\* as it was; finger_just_pressed() returns the latch and clears it.
C30_JustPressedLatch ==
    [][ /\ rib_call'[1] = "poll" =>
             ribbon'.finger_just_pressed
               = ( \/ ribbon.finger_just_pressed
                   \/ ~ribbon.finger_is_pressing
                        /\ ribbon'.finger_is_pressing )
        /\ rib_call'[1] = "finger_just_pressed" =>
             /\ rib_call'[3] = ribbon.finger_just_pressed
             /\ ~ribbon'.finger_just_pressed ]_vars

\* a further in-range poll of a pressed ribbon whose latch was read
C30_Witness ==
    /\ PolledInRange
    /\ ribbon.finger_is_pressing
    /\ ~ribbon.finger_just_pressed
    /\ rib_run = RibbonK

\* every note of the bitfield allowed is in the list notes
AllAllowedIn(allowed, notes) ==
    \A n \in 0 .. 11 :
        BitIsSet(allowed, n) => \E i \in 1 .. Len(notes) : notes[i] = n

\* C31: after any sequence of allow and forbid calls the allowed bitfield
\* is not zero and uses only its 12 low bits, and a forbid(ns) that would
\* forbid every note leaves exactly the last note of ns allowed.
C31_SomeNoteAllowed ==
    [][ /\ quant'.allowed \in 1 .. 4095
        /\ ( /\ q_call' = "forbid"
             /\ Len(q_notes') > 0
             /\ AllAllowedIn(quant.allowed, q_notes') )
             => quant'.allowed = 2 ^ q_notes'[Len(q_notes')] ]_vars

\* forbid of every note, C last, has left only C allowed
C31_Witness ==
    /\ q_call = "forbid"
    /\ Len(q_notes) = 12
    /\ q_notes[12] = 0
    /\ quant.allowed = 1

\* C32: no convert(v) returns a note_num whose note, note_num mod 12, is
\* forbidden when it returns.
C32_ConvertedNoteAllowed ==
    q_call = "convert" => BitIsSet(quant.allowed, q_ret.note_num % 12)

\* C33: for every convert(v) with v in [0, V_MAX] the Conversion returned
\* has stairstep + fraction = v and stairstep = note_num / 12.
C33_ConversionRoundTrip ==
    (q_call = "convert" /\ 0 <= q_vin /\ q_vin <= V_MAX) =>
        /\ q_ret.stairstep + q_ret.fraction = q_vin
        /\ q_ret.stairstep = (q_ret.note_num * OneVolt) \div 12

\* C34: when convert() has just returned note n with stairstep s and n's
\* note is allowed, an input strictly between s - HYSTERESIS and
\* s + SEMITONE_WIDTH + HYSTERESIS converts to n again.
C34_HysteresisHolds ==
    [][ ( /\ q_call = "convert"
          /\ q_call' = "convert"
          /\ BitIsSet(quant.allowed, q_ret.note_num % 12)
          /\ q_ret.stairstep - HYSTERESIS < q_vin'
          /\ q_vin' < q_ret.stairstep + SEMITONE_WIDTH + HYSTERESIS )
          => q_ret'.note_num = q_ret.note_num ]_vars


(***************************************************************************)
(* The envelope's accumulator from one tick to the next                    *)
(***************************************************************************)

\* the states in which Adsr::tick moves the accumulator
TickingStates == {"Attack", "Decay", "Release"}

\* the time parameter of the state a is in, as it is now
TimeOfState(a) ==
    CASE a.state = "Attack"  -> a.attack_time
      [] a.state = "Decay"   -> a.decay_time
      [] a.state = "Release" -> a.release_time

\* the increment set_period derives from the time parameter of the state
StateIncrement(a) ==
    U32ToInt(PhaseAccumulator_set_period(a.phase_accumulator, TimeOfState(a),
                                         TOT_NUM_ACCUM_BITS).increment)

\* the last call was a gate event that started a new phase
GateStartedPhase ==
    \/ last_call = "gate_on" /\ from_state # "Attack"
    \/ last_call = "gate_off" /\ from_state \in {"Attack", "Decay", "Sustain"}

\* C35: every tick() in Attack, Decay or Release advances the accumulator
\* by the increment derived from the current state's time parameter as it
\* is at that tick (mod 2^N), so a set_input of that parameter takes effect
\* on the very next tick, and the first tick after a gate_on() or
\* gate_off() that started a phase leaves the accumulator equal to the new
\* phase's increment (mod 2^N), whatever curve segment was in flight.
C35_TickUsesCurrentIncrement ==
    [][ ( last_call' = "tick" /\ adsr.state \in TickingStates ) =>
          /\ adsr'.phase_accumulator.accumulator
                 = (pa.accumulator + StateIncrement(adsr))
                       % (2 ^ TOT_NUM_ACCUM_BITS)
          /\ GateStartedPhase =>
                 adsr'.phase_accumulator.accumulator
                     = StateIncrement(adsr) % (2 ^ TOT_NUM_ACCUM_BITS) ]_vars

\* the first tick of a release that a gate_off started in mid-curve, with
\* a release time that differs from the attack time and the decay time
C35_Witness ==
    /\ last_call = "tick"
    /\ from_state = "Release"
    /\ adsr.state = "Release"
    /\ adsr.release_time # adsr.attack_time
    /\ adsr.release_time # adsr.decay_time
    /\ adsr.value_when_gate_off_received \notin {0, ONE, adsr.sustain_level}
    /\ pa.accumulator = StateIncrement(adsr)

(***************************************************************************)
(* The end of the ticking phases                                           *)
(***************************************************************************)

\* the envelope is in state st and the increment of st moves the
\* accumulator
Advancing(st) ==
    /\ adsr.state = st
    /\ StateIncrement(adsr) % (2 ^ TOT_NUM_ACCUM_BITS) # 0

\* C36: while tick() keeps being called and no gate event occurs, a phase
\* whose increment is not a multiple of 2^N ends: Attack is followed by
\* Decay, Decay by Sustain and Release by AtRest with output 0; with an
\* increment that is 0 mod 2^N no tick leaves the ticking phase.
C36_NoPhaseLastsForever ==
    /\ Advancing("Attack") ~> (adsr.state = "Decay" \/ stage = "released")
    /\ Advancing("Decay") ~> (adsr.state = "Sustain" \/ stage = "released")
    /\ Advancing("Release") ~> (adsr.state = "AtRest" /\ adsr.value = 0)
    /\ [][ ( /\ last_call' = "tick"
             /\ adsr.state \in TickingStates
             /\ StateIncrement(adsr) % (2 ^ TOT_NUM_ACCUM_BITS) = 0 )
           => adsr'.state = adsr.state ]_vars

\* a release from a non-zero output that the ticks have ended, after an
\* attack and a decay that the ticks have ended
C36_Witness ==
    /\ stage = "released"
    /\ last_call = "tick"
    /\ from_state = "Release"
    /\ adsr.state = "AtRest"
    /\ adsr.value = 0
    /\ adsr.value_when_gate_off_received = adsr.sustain_level
    /\ adsr.sustain_level = ONE \div 2

(***************************************************************************)
(* The indices into the lookup tables                                      *)
(***************************************************************************)

\* C37: in every reachable state the table indices are in bounds: the
\* envelope's index() and its interpolation index
\* min(index() + 1, table_size - 1) lie in [0, table_size - 1] and the
\* latter is never 0, and the two indices the oscillator uses for the sine
\* table lie in [0, table_size - 1].
C37_TableIndicesInBounds ==
    /\ Adsr_lut_idx(adsr) \in 0 .. (ADSR_CURVE_LUT_SIZE - 1)
    /\ Adsr_next_lut_idx(adsr) \in 1 .. (ADSR_CURVE_LUT_SIZE - 1)
    /\ Adsr_next_lut_idx(adsr) >= Adsr_lut_idx(adsr)
    /\ Lfo_sine_lut_idx(lfo) \in 0 .. (SINE_LUT_SIZE - 1)
    /\ Lfo_sine_next_lut_idx(lfo) \in 0 .. (SINE_LUT_SIZE - 1)

\* the envelope in the last segment of a curve, where the interpolation
\* index is the clamped one
C37_Witness ==
    /\ last_call = "tick"
    /\ adsr.state \in TickingStates
    /\ Adsr_lut_idx(adsr) = ADSR_CURVE_LUT_SIZE - 1
    /\ Adsr_next_lut_idx(adsr) = ADSR_CURVE_LUT_SIZE - 1

=============================================================================
